---------------------------- MODULE Spec2Model ----------------------------
(***************************************************************************)
(* Logic-network evaluation engine of the FUP simulator (src/main.py):     *)
(* the global variable store, gates, ports and wires of every network's    *)
(* scene, and the periodic tick (update_simulation).                       *)
(*                                                                         *)
(* A Port holds a direct reference to a Variable OBJECT (port.variable),   *)
(* while the store VARIABLES maps names to objects.  Objects are therefore *)
(* modelled by identity (an index into  objs ), the store as a map from    *)
(* names to object identities, 0 standing for "no entry" / Python None.    *)
(*                                                                         *)
(* One thread runs the editor handlers and the timer callback, so a        *)
(* handler never interleaves with a tick:  pc  is the position of that     *)
(* thread ("idle" between callbacks, "tick" inside update_simulation) and  *)
(* pos  the index of the next scene item of the running tick.              *)
(***************************************************************************)
EXTENDS Integers, Sequences, FiniteSets, TLC

\* ------------------------------------------------------------- bounds
MaxGates == 3      \* gate objects ever created
MaxNets  == 2      \* networks ever created
MaxIn    == 3      \* input ports of one AND/OR/XOR gate
MaxTime  == 3      \* last reading of the clock, in seconds
HistLen  == 5      \* evaluations of a gate the observation log remembers
MaxObjs  == 3      \* Variable objects ever created
MaxWires == 2      \* wires drawn in one scene of the three-gate diagrams
MaxBuilt == 2      \* gates dropped on the scenes of the editing sessions

\* ---------------------------------------------------- program constants
None         == -1      \* Python None of start_time / time_value
NaN          == -2      \* float("nan")
DefaultDelay == 1       \* self.delay = 1.0

GateKinds == {"AND", "OR", "XOR", "RS", "SR", "=", "TON", "TOF", "FP", "FN"}

\* Names a variable can carry in the model: representatives of the presets
\* of each kind, and one name that parses as a number of seconds.
Names == {"S1", "S2", "S3", "Q1", "M1", "2"}

GateIds == 1 .. MaxGates
NetIds  == 1 .. MaxNets
\* A port is <<gate, k>>: k = 0 is the output port, k >= 1 the k-th input port.
Ports   == GateIds \X (0 .. MaxIn)

VARIABLES
    variables,      \* VARIABLES: name -> object identity, 0 when absent
    objs,           \* the Variable objects: sequence of [name, var_type, value]
    layout,         \* network_container.layout: sequence of network ids
    nnets,          \* networks created so far
    sceneGates,     \* per scene: its gates in the order scene.items() yields them
    sceneWires,     \* per scene: its wires in the order scene.items() yields them
    active,         \* per scene: active_connection_source, <<0, 0>> when None
    gate_type,      \* per gate: gate_type, "none" for a gate not created
    gate_net,       \* per gate: the scene it was dropped in
    nin,            \* per gate: len(input_ports)
    memory,         \* per gate: memory
    start_time,     \* per gate: start_time (None when unset)
    delay,          \* per gate: delay
    prev_input,     \* per gate: prev_input
    port_variable,  \* per port: variable (object identity, 0 when None)
    negated,        \* per port: negated
    internal_value, \* per port: _internal_value
    time_value,     \* per port: time_value (None when unset)
    now,            \* time.time()
    pc,             \* "idle" | "tick"
    pos,            \* index of the next item of the running tick
    evals,          \* observation: compute_output calls per gate in this tick
    hist,           \* observation: per gate, its latest compute_output calls
    painted,        \* observation: the ports update_color ran on in this tick
    request         \* observation: the latest request made in the editor

vars == <<variables, objs, layout, nnets, sceneGates, sceneWires, active,
          gate_type, gate_net, nin, memory, start_time, delay, prev_input,
          port_variable, negated, internal_value, time_value, now, pc, pos,
          evals, hist, painted, request>>

storeVars == <<variables, objs>>
netVars   == <<layout, nnets>>
sceneVars == <<sceneGates, sceneWires, active, request>>
gateVars  == <<gate_type, gate_net, nin, memory, start_time, delay, prev_input>>
portVars  == <<port_variable, negated, internal_value, time_value>>
tickVars  == <<pc, pos, evals, hist, painted>>

NoPort == <<0, 0>>

\* ------------------------------------------------------------ helpers
Range(s) == {s[i] : i \in 1 .. Len(s)}

RECURSIVE Concat(_, _)
\* f[s[1]] \o f[s[2]] \o ... : the items of the networks of layout s, in order
Concat(f, s) == IF s = <<>> THEN <<>> ELSE f[Head(s)] \o Concat(f, Tail(s))

Remove(s, x) == SelectSeq(s, LAMBDA y : y # x)

\* The gate was created and is an item of its scene (port.scene() is not None).
InScene(g) == gate_type[g] # "none" /\ g \in Range(sceneGates[gate_net[g]])

\* The gate's network is still in the layout.
Shown(g) == InScene(g) /\ gate_net[g] \in Range(layout)

\* PortItem.is_input
is_input(p) == p[2] >= 1

PortExists(p) ==
    /\ p[1] \in GateIds
    /\ gate_type[p[1]] # "none"
    /\ p[2] <= nin[p[1]]

\* -------------------------------------------------------------- Port
\* float(text): the texts the model enters and what Python makes of them
FloatTexts == {"0", "2", "nan"}
ParseFloat(text) == CASE text = "0" -> 0
                      [] text = "2" -> 2
                      [] text = "nan" -> NaN

\* x >= d on Python floats: every comparison with nan is False
FloatGE(x, d) == d # NaN /\ x >= d

\* get_incoming_wire_value: the first wire of the port's scene ending in the
\* port; 0 when the port has no scene or no such wire.
IncomingWire(p) ==
    IF ~InScene(p[1]) THEN 0
    ELSE LET ws == sceneWires[gate_net[p[1]]]
             hit == {i \in 1 .. Len(ws) : ws[i].dest_port = p}
         IN IF hit = {} THEN 0 ELSE CHOOSE i \in hit : \A j \in hit : i <= j

RECURSIVE get_value(_)
\* mutant: the bound Variable is looked at before the incoming wire
get_value_VariableFirst(p) ==
    LET w == IncomingWire(p)
        val == IF port_variable[p] # 0
               THEN objs[port_variable[p]].value
               ELSE IF w # 0
                    THEN get_value(sceneWires[gate_net[p[1]]][w].source_port)
                    ELSE internal_value[p]
    IN IF negated[p] THEN ~val ELSE val

\* mutant: the latched value of the wire's source port is taken
get_value_SourceLatch(p) ==
    LET w == IncomingWire(p)
        val == IF w # 0
               THEN internal_value[sceneWires[gate_net[p[1]]][w].source_port]
               ELSE IF port_variable[p] # 0
                    THEN objs[port_variable[p]].value
                    ELSE internal_value[p]
    IN IF negated[p] THEN ~val ELSE val

\* mutant: only a Variable of kind "eingang" is looked at
get_value_InputsOnly(p) ==
    LET w == IncomingWire(p)
        val == IF w # 0
               THEN get_value(sceneWires[gate_net[p[1]]][w].source_port)
               ELSE IF /\ port_variable[p] # 0
                       /\ objs[port_variable[p]].var_type = "eingang"
                    THEN objs[port_variable[p]].value
                    ELSE internal_value[p]
    IN IF negated[p] THEN ~val ELSE val

\* mutant: the negation of an output port is not applied
get_value_Unflipped(p) ==
    LET w == IncomingWire(p)
        val == IF w # 0
               THEN get_value(sceneWires[gate_net[p[1]]][w].source_port)
               ELSE IF port_variable[p] # 0
                    THEN objs[port_variable[p]].value
                    ELSE internal_value[p]
    IN IF negated[p] /\ is_input(p) THEN ~val ELSE val

get_value(p) ==
    LET w == IncomingWire(p)
        val == IF w # 0
               THEN get_value(sceneWires[gate_net[p[1]]][w].source_port)
               ELSE IF port_variable[p] # 0
                    THEN objs[port_variable[p]].value
                    ELSE internal_value[p]
    IN IF negated[p] THEN ~val ELSE val

\* mutant: the result is written to every port of the gate
set_value_internal_Gate(p, value) ==
    [q \in Ports |-> IF q[1] = p[1] THEN value ELSE internal_value[q]]

\* set_value: the port's _internal_value and its Variable object after the write
set_value_internal(p, value) == [internal_value EXCEPT ![p] = value]
\* mutant: the write stops at the port
set_value_objs_Skip(p, value) == objs

\* mutant: a negated port writes the negated value to its Variable
set_value_objs_Negated(p, value) ==
    IF port_variable[p] # 0
    THEN [objs EXCEPT ![port_variable[p]].value =
                          IF negated[p] THEN ~value ELSE value]
    ELSE objs

\* mutant: the first write to a Variable in a tick is the one that stays
set_value_objs_FirstWins(p, value) ==
    IF /\ port_variable[p] # 0
       /\ ~\E g \in GateIds : /\ g # p[1] /\ evals[g] > 0
                               /\ port_variable[<<g, 0>>] = port_variable[p]
    THEN [objs EXCEPT ![port_variable[p]].value = value]
    ELSE objs

set_value_objs(p, value) ==
    IF port_variable[p] # 0
    THEN [objs EXCEPT ![port_variable[p]].value = value]
    ELSE objs

\* -------------------------------------------------------------- Gate
\* AND: False without input ports, else the conjunction (lines 562-568)
ANDResult(ins) == ins # <<>> /\ \A i \in 1 .. Len(ins) : ins[i]

\* OR (lines 569-572)
ORResult(ins) == \E i \in 1 .. Len(ins) : ins[i]

RECURSIVE XORFold(_, _)
\* XOR: accum = (accum != ip.get_value()) over the ports in order (574-577)
XORFold(accum, ins) ==
    IF ins = <<>> THEN accum ELSE XORFold(accum # Head(ins), Tail(ins))

\* mutant: true iff exactly one input is true
XORResult_ExactlyOne(ins) ==
    Cardinality({i \in 1 .. Len(ins) : ins[i]}) = 1

XORResult(ins) == XORFold(FALSE, ins)

\* mutant: both inputs true resets
SRResult_ResetWins(S, R, mem) ==
    IF R THEN FALSE ELSE IF S THEN TRUE ELSE mem

\* SR: input_ports[0] is S, input_ports[1] is R (lines 578-589)
SRResult(S, R, mem) ==
    IF S /\ ~R THEN TRUE
    ELSE IF R /\ ~S THEN FALSE
    ELSE IF S /\ R THEN TRUE
    ELSE mem

\* mutant: both inputs true sets
RSResult_SetWins(R, S, mem) ==
    IF S THEN TRUE ELSE IF R THEN FALSE ELSE mem

\* RS: input_ports[0] is R, input_ports[1] is S (lines 590-601)
RSResult(R, S, mem) ==
    IF R /\ ~S THEN FALSE
    ELSE IF S /\ ~R THEN TRUE
    ELSE IF R /\ S THEN FALSE
    ELSE mem

\* TON/TOF: the delay after the T port was looked at (lines 607-617)
TimerDelay(g) ==
    LET t_port == <<g, 2>>
        v == port_variable[t_port]
    IN IF v # 0
       THEN IF objs[v].name \in FloatTexts
            THEN ParseFloat(objs[v].name) ELSE delay[g]
       ELSE IF time_value[t_port] # None
            THEN time_value[t_port] ELSE delay[g]

\* mutant: every evaluation with a true control arms the timer anew
TONStart_Rearm(control, st, t) == IF control THEN t ELSE None

\* TON (lines 618-628): start_time after the evaluation, and the result
TONStart(control, st, t) ==
    IF control THEN (IF st = None THEN t ELSE st) ELSE None
\* mutant: the delay must be exceeded, not reached
TONResult_Strict(control, st, t, d) ==
    control /\ d # NaN /\ t - st > d

TONResult(control, st, t, d) ==
    IF control THEN FloatGE(t - st, d) ELSE FALSE

\* mutant: every evaluation with a false control arms the timer anew
TOFStart_Rearm(control, st, t) == IF ~control THEN t ELSE None

\* TOF (lines 629-639)
TOFStart(control, st, t) ==
    IF ~control THEN (IF st = None THEN t ELSE st) ELSE None
TOFResult(control, st, t, d) ==
    IF ~control THEN ~FloatGE(t - st, d) ELSE TRUE

\* mutant: the level of the input, not its edge
FPResult_Level(current, prev) == current

\* FP / FN (lines 640-647)
FPResult(current, prev) == current /\ ~prev
\* mutant: the previous sample is not looked at
FNResult_Level(current, prev) == ~current

FNResult(current, prev) == ~current /\ prev

\* mutant: the memory is set by a true result and never cleared
LatchMemory_Hold(res, mem) == res \/ mem

\* SR / RS (lines 589, 601): the memory after the evaluation is the result
LatchMemory(res, mem) == res

\* The resolved values compute_output reads, in port order.  A timer reads
\* only its control port through get_value.
ReadCount(g) == IF gate_type[g] \in {"TON", "TOF", "=", "FP", "FN"}
                THEN IF nin[g] >= 1 THEN 1 ELSE 0
                ELSE nin[g]
Inputs(g) == [k \in 1 .. ReadCount(g) |-> get_value(<<g, k>>)]

\* What one call of compute_output makes of the gate: the result and the
\* gate's state after the call.
Evaluate(g) ==
    LET k   == gate_type[g]
        ins == Inputs(g)
        d   == IF k \in {"TON", "TOF"} THEN TimerDelay(g) ELSE delay[g]
        st  == CASE k = "TON" -> TONStart(ins[1], start_time[g], now)
                 [] k = "TOF" -> TOFStart(ins[1], start_time[g], now)
                 [] OTHER -> start_time[g]
        res == CASE k = "AND" -> ANDResult(ins)
                 [] k = "OR"  -> ORResult(ins)
                 [] k = "XOR" -> XORResult(ins)
                 [] k = "SR"  -> SRResult(ins[1], ins[2], memory[g])
                 [] k = "RS"  -> RSResult(ins[1], ins[2], memory[g])
                 [] k = "="   -> IF ins # <<>> THEN ins[1] ELSE FALSE
                 [] k = "TON" -> TONResult(ins[1], st, now, d)
                 [] k = "TOF" -> TOFResult(ins[1], st, now, d)
                 [] k = "FP"  -> FPResult(IF ins # <<>> THEN ins[1] ELSE FALSE,
                                          prev_input[g])
                 [] k = "FN"  -> FNResult(IF ins # <<>> THEN ins[1] ELSE FALSE,
                                          prev_input[g])
    IN [res |-> res, ins |-> ins, delay |-> d, start_time |-> st,
        memory |-> IF k \in {"SR", "RS"} THEN LatchMemory(res, memory[g])
                   ELSE memory[g],
        prev_input |-> IF k \in {"FP", "FN"}
                       THEN (IF ins # <<>> THEN ins[1] ELSE FALSE)
                       ELSE prev_input[g]]

\* The observation log: for every gate the resolved inputs and the result of
\* its latest compute_output calls, the oldest first.  The latches and the
\* edge detectors, whose result depends on the evaluations before, are
\* remembered over HistLen calls, the other kinds over the last call.
LogCap(kind) == IF kind \in {"SR", "RS", "FP", "FN"} THEN HistLen ELSE 1

Log(h, cap, o) == IF Len(h) < cap THEN Append(h, o) ELSE Append(Tail(h), o)

\* update_color on the ports ps: brush and pen are set from get_value
update_color(ps) == painted \cup ps

\* compute_output: the gate's state, then set_value on every output port,
\* which repaints the port (update_color, line 707).  The update_color calls
\* the loop of update_simulation itself makes on the gate's ports, which
\* scene.items() yields next to the gate they are children of, are taken
\* with the gate's turn.
compute_output(g) ==
    LET e == Evaluate(g)
        out == <<g, 0>>
    IN /\ memory' = [memory EXCEPT ![g] = e.memory]
       /\ start_time' = [start_time EXCEPT ![g] = e.start_time]
       /\ delay' = [delay EXCEPT ![g] = e.delay]
       /\ prev_input' = [prev_input EXCEPT ![g] = e.prev_input]
       /\ internal_value' = set_value_internal(out, e.res)
       /\ objs' = set_value_objs(out, e.res)
       /\ evals' = [evals EXCEPT ![g] = @ + 1]
       /\ hist' = [hist EXCEPT ![g] = Log(@, LogCap(gate_type[g]),
                                           [ins |-> e.ins, res |-> e.res])]
       /\ painted' = update_color({<<g, k>> : k \in 0 .. nin[g]})

\* ------------------------------------------------------ Simulation loop
\* update_simulation visits, network by network in layout order, the items
\* of the scene; only the gates among them change state.
\* mutant: every scene ever created is visited
TickItems_AllScenes == Concat(sceneGates, [i \in 1 .. nnets |-> i])

TickItems == Concat(sceneGates, layout)

\* what entering update_simulation does to the position and the observations
EnterTick ==
    /\ pc' = "tick"
    /\ pos' = 1
    /\ evals' = [g \in GateIds |-> 0]
    /\ hist' = hist
    /\ painted' = {}

\* the timer fires (sim_timer, every 200 ms)
TickStart ==
    /\ pc = "idle"
    /\ EnterTick
    /\ UNCHANGED <<storeVars, netVars, sceneVars, gateVars, portVars, now>>

\* mutant: the ValueError of float() on the name of the T port's Variable
\* is not caught and ends the callback
EvalStep_Raise ==
    /\ pc = "tick"
    /\ pos <= Len(TickItems)
    /\ IF /\ gate_type[TickItems[pos]] \in {"TON", "TOF"}
          /\ port_variable[<<TickItems[pos], 2>>] # 0
          /\ objs[port_variable[<<TickItems[pos], 2>>]].name \notin FloatTexts
       THEN /\ pc' = "idle"
            /\ pos' = 1
            /\ evals' = [g \in GateIds |-> 0]
            /\ painted' = {}
            /\ UNCHANGED <<storeVars, netVars, sceneVars, gateVars, portVars,
                           now, hist>>
       ELSE /\ compute_output(TickItems[pos])
            /\ pos' = pos + 1
            /\ UNCHANGED <<variables, netVars, sceneVars, gate_type, gate_net,
                           nin, port_variable, negated, time_value, now, pc>>

\* one iteration of the loop over the scene items
EvalStep ==
    /\ pc = "tick"
    /\ pos <= Len(TickItems)
    /\ compute_output(TickItems[pos])
    /\ pos' = pos + 1
    /\ UNCHANGED <<variables, netVars, sceneVars, gate_type, gate_net, nin,
                   port_variable, negated, time_value, now, pc>>

\* the loop is over: update_dashboard, and the callback returns
TickEnd ==
    /\ pc = "tick"
    /\ pos > Len(TickItems)
    /\ pc' = "idle"
    /\ pos' = 1
    /\ evals' = [g \in GateIds |-> 0]
    /\ painted' = {}
    /\ UNCHANGED <<storeVars, netVars, sceneVars, gateVars, portVars, now,
                   hist>>

\* the wall clock moves on (at any point, also inside a tick)
Advance ==
    /\ now < MaxTime
    /\ now' = now + 1
    /\ UNCHANGED <<storeVars, netVars, sceneVars, gateVars, portVars, tickVars>>

\* SPSDashboard.toggle_input: a button of an input variable is clicked
ToggleInput ==
    /\ pc = "idle"
    /\ \E name \in Names, checked \in BOOLEAN :
          /\ variables[name] # 0
          /\ objs[variables[name]].var_type = "eingang"
          /\ objs' = [objs EXCEPT ![variables[name]].value = checked]
    /\ UNCHANGED <<variables, netVars, sceneVars, gateVars, portVars, now,
                   tickVars>>

\* mutant: a text that is no number clears the time constant to 0
SetTimeConstant_Zero ==
    /\ pc = "idle"
    /\ \E g \in GateIds, text \in FloatTexts \cup {"abc"} :
          /\ InScene(g) /\ gate_net[g] \in Range(layout)
          /\ gate_type[g] \in {"TON", "TOF"}
          /\ time_value' = [time_value EXCEPT ![<<g, 2>>] =
                                IF text \in FloatTexts THEN ParseFloat(text)
                                ELSE 0]
          /\ request' = <<"time", g, text, delay[g]>>
    /\ UNCHANGED <<storeVars, netVars, sceneGates, sceneWires, active,
                   gateVars, port_variable, negated, internal_value, now,
                   tickVars>>

\* PortItem.mouseDoubleClickEvent on a T port: the time constant is entered
SetTimeConstant ==
    /\ pc = "idle"
    /\ \E g \in GateIds, text \in FloatTexts \cup {"abc"} :
          /\ InScene(g) /\ gate_net[g] \in Range(layout)
          /\ gate_type[g] \in {"TON", "TOF"}
          /\ time_value' = IF text \in FloatTexts
                           THEN [time_value EXCEPT ![<<g, 2>>] = ParseFloat(text)]
                           ELSE time_value
          /\ request' = <<"time", g, text, delay[g]>>
    /\ UNCHANGED <<storeVars, netVars, sceneGates, sceneWires, active,
                   gateVars, port_variable, negated, internal_value, now,
                   tickVars>>

\* ------------------------------------------------------- configurations
\* GateItem.__init__: the number of input ports a new gate gets
InitialInputs(kind) == IF kind \in {"=", "FP", "FN"} THEN 1 ELSE 2

StoreOf(ob) ==
    [name \in Names |->
        IF \E i \in 1 .. Len(ob) : ob[i].name = name
        THEN CHOOSE i \in 1 .. Len(ob) : ob[i].name = name
        ELSE 0]

Input(name)  == [name |-> name, var_type |-> "eingang", value |-> FALSE]
Merker(name) == [name |-> name, var_type |-> "merker", value |-> FALSE]

\* A diagram as the editor leaves it before its first tick: the gates as
\* GateItem.__init__ and PortItem.__init__ make them, in the given scenes,
\* with the given wires, bindings and negation flags.
Diagram(gt, gn, ni, lay, sg, sw, pv, ng, ob) ==
    /\ gate_type = gt
    /\ gate_net = gn
    /\ nin = ni
    /\ layout = lay
    /\ nnets = Len(lay)
    /\ sceneGates = sg
    /\ sceneWires = sw
    /\ active = [n \in NetIds |-> NoPort]
    /\ memory = [g \in GateIds |-> FALSE]
    /\ start_time = [g \in GateIds |-> None]
    /\ delay = [g \in GateIds |-> DefaultDelay]
    /\ prev_input = [g \in GateIds |-> FALSE]
    /\ port_variable = pv
    /\ negated = ng
    /\ internal_value = [p \in Ports |-> FALSE]
    /\ time_value = [p \in Ports |-> None]
    /\ objs = ob
    /\ variables = StoreOf(ob)
    /\ now = 0
    /\ pc = "idle"
    /\ pos = 1
    /\ evals = [g \in GateIds |-> 0]
    /\ hist = [g \in GateIds |-> <<>>]
    /\ painted = {}
    /\ request = <<>>

\* One gate of any kind in the first network; every input port that takes a
\* variable is assigned an input variable of its own (S1, S2, S3), the
\* other presets having been deleted.
InitGate ==
    \E kind \in GateKinds, extra \in 0 .. (MaxIn - 2) :
        LET n == InitialInputs(kind) + extra
            nb == IF kind \in {"TON", "TOF"} THEN 1
                  ELSE IF n < 3 THEN n ELSE 3
            ob == SubSeq(<<Input("S1"), Input("S2"), Input("S3")>>, 1, nb)
        IN /\ extra > 0 => kind \in {"AND", "OR", "XOR"}
           /\ Diagram([g \in GateIds |-> IF g = 1 THEN kind ELSE "none"],
                      [g \in GateIds |-> 1],
                      [g \in GateIds |-> IF g = 1 THEN n ELSE 0],
                      <<1>>,
                      [m \in NetIds |-> IF m = 1 THEN <<1>> ELSE <<>>],
                      [m \in NetIds |-> <<>>],
                      [p \in Ports |-> IF p[1] = 1 /\ p[2] \in 1 .. nb
                                       THEN p[2] ELSE 0],
                      [p \in Ports |-> FALSE],
                      ob)

\* ------------------------------------------------------ editor handlers
\* mutant: the wires of every scene go with the network
DeleteNetwork_AllScenes ==
    /\ pc = "idle"
    /\ \E n \in Range(layout) : layout' = Remove(layout, n)
    /\ sceneWires' = [m \in NetIds |-> <<>>]
    /\ UNCHANGED <<nnets, storeVars, sceneGates, active, request, gateVars,
                   portVars, now, tickVars>>

\* MainWindow.delete_network: the widget leaves the layout
DeleteNetwork ==
    /\ pc = "idle"
    /\ \E n \in Range(layout) : layout' = Remove(layout, n)
    /\ UNCHANGED <<nnets, storeVars, sceneVars, gateVars, portVars, now,
                   tickVars>>

\* MainWindow.keyPressEvent, Delete with a gate selected: only gates are
\* selectable (ItemIsSelectable, line 486), so selectedItems() holds gates and
\* the branch taken is scene.removeItem(item): the gate and its ports leave
\* the scene, the wires at its ports stay.
DeleteGate ==
    /\ pc = "idle"
    /\ \E g \in GateIds :
          /\ Shown(g)
          /\ sceneGates' = [sceneGates EXCEPT ![gate_net[g]] = Remove(@, g)]
    /\ UNCHANGED <<sceneWires, active, request, storeVars, netVars, gateVars,
                   portVars, now, tickVars>>

\* WireItem.mousePressEvent, right button: the wire leaves its scene
RemoveWire ==
    /\ pc = "idle"
    /\ \E n \in Range(layout) : \E i \in 1 .. Len(sceneWires[n]) :
          sceneWires' = [sceneWires EXCEPT ![n] =
                            SubSeq(@, 1, i - 1) \o SubSeq(@, i + 1, Len(@))]
    /\ UNCHANGED <<sceneGates, active, request, storeVars, netVars, gateVars,
                   portVars, now, tickVars>>

\* mutant: the edited variable is a new Variable object under the new name
EditVariable_Replace(old_name, new_name, new_type, new_value) ==
    /\ pc = "idle"
    /\ variables[old_name] # 0
    /\ IF (new_name # old_name /\ variables[new_name] # 0)
          \/ Len(objs) >= MaxObjs
       THEN UNCHANGED storeVars
       ELSE /\ variables' = [[variables EXCEPT ![old_name] = 0]
                                EXCEPT ![new_name] = Len(objs) + 1]
            /\ objs' = Append(objs, [name |-> new_name,
                                     var_type |-> new_type,
                                     value |-> new_value])
    /\ UNCHANGED <<netVars, sceneVars, gateVars, portVars, now, tickVars>>

\* FilteredVariableListWidget.contextMenuEvent, "Bearbeiten": the dialog
\* returns a name, a kind and a value for the variable listed as old_name
EditVariable(old_name, new_name, new_type, new_value) ==
    /\ pc = "idle"
    /\ variables[old_name] # 0
    /\ LET v == variables[old_name]
       IN IF new_name # old_name /\ variables[new_name] # 0
          THEN UNCHANGED storeVars
          ELSE /\ variables' = IF new_name # old_name
                               THEN [variables EXCEPT ![old_name] = 0,
                                                      ![new_name] = v]
                               ELSE variables
               /\ objs' = [objs EXCEPT ![v] = [name |-> new_name,
                                               var_type |-> new_type,
                                               value |-> new_value]]
    /\ UNCHANGED <<netVars, sceneVars, gateVars, portVars, now, tickVars>>

\* the dialog is used to give the memory variable M1 a value
EditValue == \E value \in BOOLEAN : EditVariable("M1", "M1", "merker", value)

\* Two gates A (gate 1) and B (gate 2).  A's inputs are assigned S1 (and
\* S2), B sits in A's network or in a second one, either of them first in
\* the order of evaluation; A's output port may be wired to B's first input
\* port, either port may be assigned the memory variable M1 and be negated;
\* B's further input is assigned S2.  The presets not used were deleted.
KindsA == {"=", "XOR"}
KindsB == {"=", "AND"}

Init ==
    \E ka \in KindsA, kb \in KindsB, nb \in NetIds, first \in 1 .. 2,
       wired \in BOOLEAN, outvar \in {0, 2}, invar \in {0, 2},
       negA \in BOOLEAN, negB \in BOOLEAN :
        LET A == 1
            B == 2
            order == IF first = 1 THEN <<A, B>> ELSE <<B, A>>
        IN /\ nb \in 1 .. 2
           /\ wired => nb = 1
           /\ Diagram([g \in GateIds |-> CASE g = A -> ka [] g = B -> kb
                                           [] OTHER -> "none"],
                      [g \in GateIds |-> IF g = B THEN nb ELSE 1],
                      [g \in GateIds |-> CASE g = A -> InitialInputs(ka)
                                           [] g = B -> InitialInputs(kb)
                                           [] OTHER -> 0],
                      IF nb = 1 THEN <<1>>
                      ELSE IF first = 1 THEN <<1, 2>> ELSE <<2, 1>>,
                      [m \in NetIds |->
                          IF nb = 1 THEN (IF m = 1 THEN order ELSE <<>>)
                          ELSE CASE m = 1 -> <<A>> [] m = 2 -> <<B>>
                                 [] OTHER -> <<>>],
                      [m \in NetIds |->
                          IF wired /\ m = 1
                          THEN << [source_port |-> <<A, 0>>,
                                   dest_port |-> <<B, 1>>] >>
                          ELSE <<>>],
                      [p \in Ports |->
                          CASE p = <<A, 1>> -> 1
                            [] p = <<A, 2>> /\ InitialInputs(ka) = 2 -> 3
                            [] p = <<A, 0>> -> outvar
                            [] p = <<B, 1>> -> invar
                            [] p = <<B, 2>> /\ InitialInputs(kb) = 2 -> 3
                            [] OTHER -> 0],
                      [p \in Ports |-> (p = <<A, 0>> /\ negA)
                                       \/ (p = <<B, 1>> /\ negB)],
                      IF InitialInputs(ka) = 2 \/ InitialInputs(kb) = 2
                      THEN <<Input("S1"), Merker("M1"), Input("S2")>>
                      ELSE <<Input("S1"), Merker("M1")>>)

Next == TickStart \/ EvalStep \/ TickEnd \/ ToggleInput \/ EditValue
        \/ DeleteNetwork \/ DeleteGate \/ RemoveWire

\* Two gates in one or two networks, run and edited
Spec == Init /\ [][Next]_vars

NextGate == TickStart \/ EvalStep \/ TickEnd \/ Advance \/ ToggleInput
            \/ SetTimeConstant

\* A single gate driven through its input variables, the clock and the ticks
SpecGate == InitGate /\ [][NextGate]_vars

\* ---------------------------------------------------- variable store
VarKinds == {"eingang", "ausgang", "merker"}

\* the names the variable panel is asked for
StoreNames == {"S1", "M1"}

\* mutant: a variable of the name is replaced
AddVariable_Overwrite(name, vtype, value) ==
    /\ pc = "idle"
    /\ Len(objs) < MaxObjs
    /\ objs' = Append(objs, [name |-> name, var_type |-> vtype,
                             value |-> value])
    /\ variables' = [variables EXCEPT ![name] = Len(objs) + 1]
    /\ request' = <<"create", name, vtype>>
    /\ UNCHANGED <<sceneGates, sceneWires, active, netVars, gateVars,
                   portVars, now, tickVars>>

\* SplitVariablePanel.add_variable: the dialog returns a name and a value
\* for a variable of the kind whose "+" was pressed
AddVariable(name, vtype, value) ==
    /\ pc = "idle"
    /\ Len(objs) < MaxObjs
    /\ IF variables[name] # 0
       THEN UNCHANGED storeVars
       ELSE /\ objs' = Append(objs, [name |-> name, var_type |-> vtype,
                                     value |-> value])
            /\ variables' = [variables EXCEPT ![name] = Len(objs) + 1]
    /\ request' = <<"create", name, vtype>>
    /\ UNCHANGED <<sceneGates, sceneWires, active, netVars, gateVars,
                   portVars, now, tickVars>>

CreateVariable ==
    \E name \in StoreNames, vtype \in VarKinds, value \in BOOLEAN :
        AddVariable(name, vtype, value)

\* FilteredVariableListWidget.contextMenuEvent, "Loeschen": the entry leaves
\* VARIABLES; the Variable object stays with whatever refers to it
DeleteVariable ==
    /\ pc = "idle"
    /\ \E name \in StoreNames :
          /\ variables[name] # 0
          /\ variables' = [variables EXCEPT ![name] = 0]
    /\ UNCHANGED <<objs, netVars, sceneVars, gateVars, portVars, now, tickVars>>

\* the dialog is used to give a variable a name
RenameVariable ==
    \E old_name \in StoreNames, new_name \in StoreNames :
        /\ variables[old_name] # 0
        /\ EditVariable(old_name, new_name,
                        objs[variables[old_name]].var_type,
                        objs[variables[old_name]].value)

\* the kinds VariableAssignmentDialog offers for port p
valid_types(p) == IF is_input(p) THEN {"eingang", "ausgang", "merker"}
                  ELSE {"ausgang", "merker"}

\* PortItem.mouseDoubleClickEvent on a port other than T: a variable the
\* dialog offers is chosen
AssignVariable ==
    /\ pc = "idle"
    /\ \E p \in Ports, var_name \in StoreNames :
          /\ PortExists(p) /\ Shown(p[1])
          /\ variables[var_name] # 0
          /\ objs[variables[var_name]].var_type \in valid_types(p)
          /\ port_variable' = [port_variable EXCEPT ![p] = variables[var_name]]
    /\ UNCHANGED <<storeVars, netVars, sceneVars, gateVars, negated,
                   internal_value, time_value, now, tickVars>>

\* PortItem.dropEvent: data of format application/x-variable naming a
\* variable is dropped on the port
DropVariable ==
    /\ pc = "idle"
    /\ \E p \in Ports, var_name \in StoreNames :
          /\ PortExists(p) /\ Shown(p[1])
          /\ variables[var_name] # 0
          /\ port_variable' = [port_variable EXCEPT ![p] = variables[var_name]]
    /\ UNCHANGED <<storeVars, netVars, sceneVars, gateVars, negated,
                   internal_value, time_value, now, tickVars>>

\* One = gate, no port assigned yet, and the presets S1 and M1 (the others
\* deleted).
InitStore ==
    Diagram([g \in GateIds |-> IF g = 1 THEN "=" ELSE "none"],
            [g \in GateIds |-> 1],
            [g \in GateIds |-> IF g = 1 THEN 1 ELSE 0],
            <<1>>,
            [m \in NetIds |-> IF m = 1 THEN <<1>> ELSE <<>>],
            [m \in NetIds |-> <<>>],
            [p \in Ports |-> 0],
            [p \in Ports |-> FALSE],
            <<Input("S1"), Merker("M1")>>)

NextStore == CreateVariable \/ DeleteVariable \/ RenameVariable
             \/ AssignVariable \/ DropVariable \/ ToggleInput

\* The variable panel and the assignment of variables to the ports of a gate
SpecStore == InitStore /\ [][NextStore]_vars

\* the edit dialog is used on a variable of the panel
EditStored ==
    \E old_name \in StoreNames, new_name \in StoreNames,
       new_type \in VarKinds, new_value \in BOOLEAN :
        EditVariable(old_name, new_name, new_type, new_value)

\* Two = gates A (gate 1) and B (gate 2) in one network, either of them
\* first in the order of evaluation.  The store holds the memory variable
\* M1 alone; A's input port, A's output port and B's input port may each be
\* assigned M1, A's output port may be wired to B's input port, and B's
\* input port may be negated.
InitEdit ==
    \E first \in 1 .. 2, wired \in BOOLEAN, negB \in BOOLEAN,
       invarA \in {0, 1}, outvar \in {0, 1}, invar \in {0, 1} :
        Diagram([g \in GateIds |-> IF g \in {1, 2} THEN "=" ELSE "none"],
                [g \in GateIds |-> 1],
                [g \in GateIds |-> IF g \in {1, 2} THEN 1 ELSE 0],
                <<1>>,
                [m \in NetIds |->
                    IF m = 1 THEN (IF first = 1 THEN <<1, 2>> ELSE <<2, 1>>)
                    ELSE <<>>],
                [m \in NetIds |->
                    IF wired /\ m = 1
                    THEN << [source_port |-> <<1, 0>>,
                             dest_port |-> <<2, 1>>] >>
                    ELSE <<>>],
                [p \in Ports |-> CASE p = <<1, 1>> -> invarA
                                   [] p = <<1, 0>> -> outvar
                                   [] p = <<2, 1>> -> invar
                                   [] OTHER -> 0],
                [p \in Ports |-> p = <<2, 1>> /\ negB],
                <<Merker("M1")>>)

NextEdit == EditStored \/ TickStart \/ EvalStep \/ TickEnd

\* A wired two-gate diagram run while its variable is edited
SpecEdit == InitEdit /\ [][NextEdit]_vars

\* Two = gates A (gate 1) and B (gate 2) whose output ports are both
\* assigned M1 and whose input ports are both assigned S1, B's negated or
\* not; B sits in A's network or in a second one, either of them first in
\* the order of evaluation.
InitShared ==
    \E nb \in 1 .. 2, first \in 1 .. 2, negB \in BOOLEAN :
        Diagram([g \in GateIds |-> IF g \in {1, 2} THEN "=" ELSE "none"],
                [g \in GateIds |-> IF g = 2 THEN nb ELSE 1],
                [g \in GateIds |-> IF g \in {1, 2} THEN 1 ELSE 0],
                IF nb = 1 THEN <<1>>
                ELSE IF first = 1 THEN <<1, 2>> ELSE <<2, 1>>,
                [m \in NetIds |->
                    IF nb = 1
                    THEN (IF m # 1 THEN <<>>
                          ELSE IF first = 1 THEN <<1, 2>> ELSE <<2, 1>>)
                    ELSE CASE m = 1 -> <<1>> [] m = 2 -> <<2>>
                           [] OTHER -> <<>>],
                [m \in NetIds |-> <<>>],
                [p \in Ports |-> CASE p[2] = 1 /\ p[1] \in {1, 2} -> 1
                                   [] p[2] = 0 /\ p[1] \in {1, 2} -> 2
                                   [] OTHER -> 0],
                [p \in Ports |-> p = <<2, 1>> /\ negB],
                <<Input("S1"), Merker("M1")>>)

NextShared == TickStart \/ EvalStep \/ TickEnd \/ ToggleInput \/ DeleteGate

\* Two gates that write the same variable, run
SpecShared == InitShared /\ [][NextShared]_vars

\* the orders scene.items() can yield three gates in
Orders == { <<1, 2, 3>>, <<1, 3, 2>>, <<2, 1, 3>>,
            <<2, 3, 1>>, <<3, 1, 2>>, <<3, 2, 1>> }

\* Three combinational gates in one network, in any order of evaluation:
\* the = gates 1 and 2 and an AND or XOR gate 3.  Either gate 1 feeds gate
\* 2 and gate 2 feeds gate 3, whose second input port is assigned S2, or
\* gates 1 and 2 both feed gate 3 and gate 2's input port is assigned S2.
\* Gate 1's input port is assigned S1, its output port may be negated; the
\* output ports of gates 1 and 2 may be assigned M1.  S1 is on or off, S2
\* is on.
InitChain ==
    \E order \in Orders, chain \in BOOLEAN, k3 \in {"AND", "XOR"},
       s1 \in BOOLEAN, negA \in BOOLEAN,
       outs \in { <<0, 0>>, <<3, 0>>, <<3, 3>> } :
        Diagram([g \in GateIds |-> IF g = 3 THEN k3 ELSE "="],
                [g \in GateIds |-> 1],
                [g \in GateIds |-> InitialInputs(IF g = 3 THEN k3 ELSE "=")],
                <<1>>,
                [m \in NetIds |-> IF m = 1 THEN order ELSE <<>>],
                [m \in NetIds |->
                    IF m # 1 THEN <<>>
                    ELSE IF chain
                    THEN << [source_port |-> <<1, 0>>, dest_port |-> <<2, 1>>],
                            [source_port |-> <<2, 0>>, dest_port |-> <<3, 1>>] >>
                    ELSE << [source_port |-> <<1, 0>>, dest_port |-> <<3, 1>>],
                            [source_port |-> <<2, 0>>, dest_port |-> <<3, 2>>] >>],
                [p \in Ports |->
                    CASE p = <<1, 1>> -> 1
                      [] p = <<3, 2>> /\ chain -> 2
                      [] p = <<2, 1>> /\ ~chain -> 2
                      [] p = <<1, 0>> -> outs[1]
                      [] p = <<2, 0>> -> outs[2]
                      [] OTHER -> 0],
                [p \in Ports |-> p = <<1, 0>> /\ negA],
                << [Input("S1") EXCEPT !.value = s1],
                   [Input("S2") EXCEPT !.value = TRUE],
                   Merker("M1") >>)

NextChain == TickStart \/ EvalStep \/ TickEnd

\* A wired network of combinational gates run with its variables left
\* alone; the timer keeps firing and update_simulation runs to its end.
SpecChain == InitChain /\ [][NextChain]_vars
             /\ WF_vars(TickStart) /\ WF_vars(EvalStep) /\ WF_vars(TickEnd)

\* ------------------------------------------------------------ wiring
\* the test `exists` of mousePressEvent over the wires ws of the scene
WireExists(ws, source, destination) ==
    \E i \in 1 .. Len(ws) :
        \/ ws[i].source_port = source /\ ws[i].dest_port = destination
        \/ ws[i].source_port = destination /\ ws[i].dest_port = source

\* mutant: two ports of one gate can be connected
Connect_SameGate(ws, src, tgt) ==
    IF src = tgt THEN ws
    ELSE IF is_input(src) # is_input(tgt)
    THEN LET source == IF is_input(src) THEN tgt ELSE src
             destination == IF is_input(src) THEN src ELSE tgt
         IN IF WireExists(ws, source, destination) THEN ws
            ELSE <<[source_port |-> source, dest_port |-> destination]>> \o ws
    ELSE ws

\* mutant: a wire is added whether or not it exists
Connect_Again(ws, src, tgt) ==
    IF src = tgt \/ src[1] = tgt[1] THEN ws
    ELSE IF is_input(src) # is_input(tgt)
    THEN LET source == IF is_input(src) THEN tgt ELSE src
             destination == IF is_input(src) THEN src ELSE tgt
         IN <<[source_port |-> source, dest_port |-> destination]>> \o ws
    ELSE ws

\* The wires of the scene after the second click of a connection, on port
\* tgt with src the active source: the new wire is the scene's newest item,
\* which scene.items() (descending stacking order) yields first.
Connect(ws, src, tgt) ==
    IF src = tgt \/ src[1] = tgt[1] THEN ws
    ELSE IF is_input(src) # is_input(tgt)
    THEN LET source == IF is_input(src) THEN tgt ELSE src
             destination == IF is_input(src) THEN src ELSE tgt
         IN IF WireExists(ws, source, destination) THEN ws
            ELSE <<[source_port |-> source, dest_port |-> destination]>> \o ws
    ELSE ws

\* mutant: the source of a connection begun in any scene
ActiveSource_AnyScene(n) ==
    IF active[n] # NoPort \/ \A m \in NetIds : active[m] = NoPort
    THEN active[n]
    ELSE active[CHOOSE m \in NetIds : active[m] # NoPort]

\* scene.active_connection_source of scene n
ActiveSource(n) == active[n]

\* PortItem.mousePressEvent, left button, on port p of a gate on screen
PortMousePress(p) ==
    LET n == gate_net[p[1]]
        src == ActiveSource(n)
    IN /\ pc = "idle"
       /\ PortExists(p) /\ Shown(p[1])
       /\ IF src # NoPort
          THEN /\ sceneWires' = [sceneWires EXCEPT
                                    ![n] = Connect(sceneWires[n], src, p)]
               /\ active' = [active EXCEPT ![n] = NoPort]
               /\ request' = <<"connect", src, p>>
          ELSE /\ active' = [active EXCEPT ![n] = p]
               /\ UNCHANGED <<sceneWires, request>>
       /\ UNCHANGED <<sceneGates, storeVars, netVars, gateVars, portVars, now,
                      tickVars>>

ClickPort == \E p \in Ports : PortMousePress(p)

\* GraphicsScene.mousePressEvent on an empty spot of scene n
ClickEmpty ==
    /\ pc = "idle"
    /\ \E n \in Range(layout) :
          /\ active[n] # NoPort
          /\ active' = [active EXCEPT ![n] = NoPort]
    /\ UNCHANGED <<sceneGates, sceneWires, request, storeVars, netVars,
                   gateVars, portVars, now, tickVars>>

\* Two = gates without wires: A (gate 1, its input port assigned S1) and B
\* (gate 2) in A's network or in a second one; A's output port and B's input
\* port may be assigned the memory variable M1.
InitWire ==
    \E nb \in NetIds, first \in 1 .. 2, shared \in BOOLEAN :
        LET A == 1
            B == 2
        IN /\ nb \in 1 .. 2
           /\ Diagram([g \in GateIds |-> IF g \in {A, B} THEN "=" ELSE "none"],
                      [g \in GateIds |-> IF g = B THEN nb ELSE 1],
                      [g \in GateIds |-> IF g \in {A, B} THEN 1 ELSE 0],
                      IF nb = 1 THEN <<1>>
                      ELSE IF first = 1 THEN <<1, 2>> ELSE <<2, 1>>,
                      [m \in NetIds |->
                          IF nb = 1
                          THEN (IF m = 1
                                THEN (IF first = 1 THEN <<A, B>> ELSE <<B, A>>)
                                ELSE <<>>)
                          ELSE CASE m = 1 -> <<A>> [] m = 2 -> <<B>>
                                 [] OTHER -> <<>>],
                      [m \in NetIds |-> <<>>],
                      [p \in Ports |->
                          CASE p = <<A, 1>> -> 1
                            [] p = <<A, 0>> /\ shared -> 2
                            [] p = <<B, 1>> /\ shared -> 2
                            [] OTHER -> 0],
                      [p \in Ports |-> FALSE],
                      <<Input("S1"), Merker("M1")>>)

NextWire == ClickPort \/ ClickEmpty \/ RemoveWire \/ DeleteGate
            \/ TickStart \/ EvalStep \/ TickEnd \/ ToggleInput

\* Two gates wired by hand, run and edited
SpecWire == InitWire /\ [][NextWire]_vars

\* Three = gates without wires in one network: A (gate 1, its input port
\* assigned S1), B (gate 2, its input port negated) and C (gate 3, its
\* input port assigned the memory variable M1 or nothing).
InitFan ==
    \E cvar \in {0, 2} :
        Diagram([g \in GateIds |-> IF g \in 1 .. 3 THEN "=" ELSE "none"],
                [g \in GateIds |-> 1],
                [g \in GateIds |-> IF g \in 1 .. 3 THEN 1 ELSE 0],
                <<1>>,
                [m \in NetIds |-> IF m = 1 THEN <<1, 2, 3>> ELSE <<>>],
                [m \in NetIds |-> <<>>],
                [p \in Ports |-> CASE p = <<1, 1>> -> 1
                                   [] p = <<3, 1>> -> cvar
                                   [] OTHER -> 0],
                [p \in Ports |-> p = <<2, 1>>],
                <<Input("S1"), Merker("M1")>>)

\* PortItem.mousePressEvent, left button, while the scenes hold fewer than
\* MaxWires wires each
DrawWire ==
    /\ \A n \in NetIds : Len(sceneWires[n]) < MaxWires
    /\ ClickPort

NextFan == DrawWire \/ RemoveWire
           \/ TickStart \/ EvalStep \/ TickEnd \/ ToggleInput

\* Three gates wired by hand and run
SpecFan == InitFan /\ [][NextFan]_vars

\* -------------------------------------------------------------- Timers
\* One timer whose control port is assigned S1 and whose T port was given
\* nothing, the input variable S2 or the variable named 2 by a drop.
InitTimer ==
    \E kind \in {"TON", "TOF"}, tvar \in {0, 2, 3} :
        Diagram([g \in GateIds |-> IF g = 1 THEN kind ELSE "none"],
                [g \in GateIds |-> 1],
                [g \in GateIds |-> IF g = 1 THEN 2 ELSE 0],
                <<1>>,
                [m \in NetIds |-> IF m = 1 THEN <<1>> ELSE <<>>],
                [m \in NetIds |-> <<>>],
                [p \in Ports |-> CASE p = <<1, 1>> -> 1
                                   [] p = <<1, 2>> -> tvar
                                   [] OTHER -> 0],
                [p \in Ports |-> FALSE],
                <<Input("S1"), Input("S2"), Input("2")>>)

NextTimer == TickStart \/ EvalStep \/ TickEnd \/ Advance \/ ToggleInput
             \/ SetTimeConstant

\* A timer run while its time constant is entered
SpecTimer == InitTimer /\ [][NextTimer]_vars

\* One off-delay just dropped: its control port is assigned nothing or the
\* input variable S1, which is false and stays so, and its T port nothing
\* or the variable named 2.
InitFresh ==
    \E cvar \in {0, 1}, tvar \in {0, 2} :
        Diagram([g \in GateIds |-> IF g = 1 THEN "TOF" ELSE "none"],
                [g \in GateIds |-> 1],
                [g \in GateIds |-> IF g = 1 THEN 2 ELSE 0],
                <<1>>,
                [m \in NetIds |-> IF m = 1 THEN <<1>> ELSE <<>>],
                [m \in NetIds |-> <<>>],
                [p \in Ports |-> CASE p = <<1, 1>> -> cvar
                                   [] p = <<1, 2>> -> tvar
                                   [] OTHER -> 0],
                [p \in Ports |-> FALSE],
                <<Input("S1"), Input("2")>>)

NextFresh == TickStart \/ EvalStep \/ TickEnd \/ Advance \/ SetTimeConstant

\* An off-delay run from its creation on with a control that stays false
SpecFresh == InitFresh /\ [][NextFresh]_vars

\* --------------------------------------------------------------- Loops
\* An on-delay A (gate 1) and a = gate B (gate 2) wired in a circle: B's
\* output port to A's control port and A's output port to B's negated input
\* port.  A's T port was given nothing, the input variable S1 or the
\* variable named 2 by a drop; B's output port is assigned M1.
InitLoop ==
    \E tvar \in {0, 1, 3} :
        Diagram([g \in GateIds |-> CASE g = 1 -> "TON" [] g = 2 -> "="
                                        [] OTHER -> "none"],
                [g \in GateIds |-> 1],
                [g \in GateIds |-> CASE g = 1 -> 2 [] g = 2 -> 1
                                        [] OTHER -> 0],
                <<1>>,
                [m \in NetIds |-> IF m = 1 THEN <<1, 2>> ELSE <<>>],
                [m \in NetIds |->
                    IF m = 1
                    THEN << [source_port |-> <<2, 0>>, dest_port |-> <<1, 1>>],
                            [source_port |-> <<1, 0>>, dest_port |-> <<2, 1>>] >>
                    ELSE <<>>],
                [p \in Ports |-> CASE p = <<1, 2>> -> tvar
                                   [] p = <<2, 0>> -> 2
                                   [] OTHER -> 0],
                [p \in Ports |-> p = <<2, 1>>],
                <<Input("S1"), Merker("M1"), Input("2")>>)

NextLoop == TickStart \/ EvalStep \/ TickEnd \/ Advance
            \/ DeleteGate \/ DeleteVariable

\* The circle run and taken apart; update_simulation, once called, runs its
\* loop to the end.
SpecLoop == InitLoop /\ [][NextLoop]_vars
            /\ WF_vars(EvalStep) /\ WF_vars(TickEnd)

\* ----------------------------------------------------------- Projects
\* init_presets' list, of which the model keeps one input and one memory
\* variable
presets == <<Input("S1"), Merker("M1")>>

RECURSIVE CreateMissing(_, _)
\* the loops of init_presets and of open_project that create a Variable
\* for every entry of vs whose name is not in the store st
CreateMissing(st, vs) ==
    IF vs = <<>> THEN st
    ELSE LET v == Head(vs)
         IN CreateMissing(
                IF st.variables[v.name] # 0 THEN st
                ELSE [variables |-> [st.variables EXCEPT
                                        ![v.name] = Len(st.objs) + 1],
                      objs |-> Append(st.objs, v)],
                Tail(vs))

\* mutant: a preset replaces the Variable of its name
init_presets_Overwrite(st) ==
    CreateMissing([variables |-> [name \in Names |-> 0], objs |-> st.objs],
                  presets)

init_presets(st) == CreateMissing(st, presets)

\* MainWindow.new_project: every key is deleted, the presets are created
\* anew, and update_simulation is run
NewProject ==
    /\ pc = "idle"
    /\ Len(objs) + Len(presets) <= MaxObjs
    /\ LET st == init_presets([variables |-> [name \in Names |-> 0],
                               objs |-> objs])
       IN /\ variables' = st.variables
          /\ objs' = st.objs
    /\ EnterTick
    /\ UNCHANGED <<netVars, sceneVars, gateVars, portVars, now>>

\* the project files opened: the "variables" object of the file, as a
\* sequence of entries
ProjectFiles ==
    { <<>>,
      <<[name |-> "M1", var_type |-> "merker", value |-> TRUE]>>,
      <<[name |-> "S1", var_type |-> "eingang", value |-> TRUE]>> }

InFile(project_vars, name) ==
    \E i \in 1 .. Len(project_vars) : project_vars[i].name = name

FileEntry(project_vars, name) ==
    project_vars[CHOOSE i \in 1 .. Len(project_vars) :
                     project_vars[i].name = name]

\* the Variables open_project keeps: those whose name is in the file
KeptNames(project_vars) ==
    [name \in Names |->
        IF InFile(project_vars, name) THEN variables[name] ELSE 0]

\* the store open_project leaves: the Variables whose name is in the file
\* take kind and value from it, the others leave the store, and the
\* entries without Variable get a new one
LoadedStore(project_vars) ==
    LET kept == KeptNames(project_vars)
        updated == [i \in 1 .. Len(objs) |->
                       IF \E name \in Names : kept[name] = i
                       THEN [objs[i] EXCEPT
                               !.var_type =
                                   FileEntry(project_vars,
                                             objs[i].name).var_type,
                               !.value =
                                   FileEntry(project_vars,
                                             objs[i].name).value]
                       ELSE objs[i]]
    IN CreateMissing([variables |-> kept, objs |-> updated], project_vars)

\* mutant: the Variables the file names keep their kind and value
open_project_NoUpdate(project_vars) ==
    /\ pc = "idle"
    /\ Len(objs) + Len(project_vars) <= MaxObjs
    /\ LET st == CreateMissing([variables |-> KeptNames(project_vars),
                                objs |-> objs], project_vars)
       IN /\ variables' = st.variables
          /\ objs' = st.objs
    /\ EnterTick
    /\ UNCHANGED <<netVars, sceneGates, sceneWires, active, gateVars,
                   portVars, now>>

\* MainWindow.open_project with a file chosen whose "variables" object is
\* project_vars: the store is rebuilt from it and update_simulation is run
open_project(project_vars) ==
    /\ pc = "idle"
    /\ Len(objs) + Len(project_vars) <= MaxObjs
    /\ variables' = LoadedStore(project_vars).variables
    /\ objs' = LoadedStore(project_vars).objs
    /\ EnterTick
    /\ UNCHANGED <<netVars, sceneGates, sceneWires, active, gateVars,
                   portVars, now>>

\* a project file written elsewhere is opened
OpenProject ==
    /\ \E project_vars \in ProjectFiles : open_project(project_vars)
    /\ UNCHANGED request

\* json.dump and json.load of a Variable's value
json_dump(value) == IF value THEN "true" ELSE "false"

json_load(text) == text = "true"

RECURSIVE SavedFrom(_)
\* the "variables" object save_project writes: for every name of VARIABLES
\* the kind and the value of its Variable, here from the i-th object on
SavedFrom(i) ==
    IF i > Len(objs) THEN <<>>
    ELSE (IF variables[objs[i].name] = i
          THEN <<[name |-> objs[i].name, var_type |-> objs[i].var_type,
                  value |-> json_dump(objs[i].value)]>>
          ELSE <<>>) \o SavedFrom(i + 1)

\* what json.load returns for a file save_project wrote
Loaded(data) ==
    [i \in 1 .. Len(data) |-> [data[i] EXCEPT !.value = json_load(@)]]

\* MainWindow.save_project with a file name given: the file is written
SaveProject ==
    /\ pc = "idle"
    /\ request' = <<"save", SavedFrom(1)>>
    /\ UNCHANGED <<storeVars, netVars, sceneGates, sceneWires, active,
                   gateVars, portVars, now, tickVars>>

\* MainWindow.open_project with the file chosen that save_project wrote last
OpenSaved ==
    /\ request # <<>> /\ request[1] \in {"save", "open"}
    /\ open_project(Loaded(request[2]))
    /\ request' = <<"open", request[2]>>

\* the edit dialog is used to make M1 an output or a memory variable with
\* a value
EditKind ==
    \E new_type \in {"ausgang", "merker"}, new_value \in BOOLEAN :
        EditVariable("M1", "M1", new_type, new_value)

\* One = gate whose output port is assigned the memory variable M1, its
\* input port negated or not; the presets other than M1 were deleted.
InitProject ==
    \E neg \in BOOLEAN :
        Diagram([g \in GateIds |-> IF g = 1 THEN "=" ELSE "none"],
                [g \in GateIds |-> 1],
                [g \in GateIds |-> IF g = 1 THEN 1 ELSE 0],
                <<1>>,
                [m \in NetIds |-> IF m = 1 THEN <<1>> ELSE <<>>],
                [m \in NetIds |-> <<>>],
                [p \in Ports |-> IF p = <<1, 0>> THEN 1 ELSE 0],
                [p \in Ports |-> p = <<1, 1>> /\ neg],
                <<Merker("M1")>>)

NextProject == NewProject \/ OpenProject \/ DeleteVariable \/ AssignVariable
               \/ ToggleInput \/ TickStart \/ EvalStep \/ TickEnd

\* A one-gate diagram run while projects are opened and begun
SpecProject == InitProject /\ [][NextProject]_vars

NextSave == SaveProject \/ OpenSaved \/ DeleteVariable \/ RenameVariable
            \/ EditKind \/ TickStart \/ EvalStep \/ TickEnd

\* The store of a one-gate diagram saved, edited and opened again
SpecSave == InitProject /\ [][NextSave]_vars

\* SplitVariablePanel.__init__: the panel is built and init_presets is
\* called on the store as it is
PanelCreated ==
    /\ pc = "idle"
    /\ Len(objs) + Len(presets) <= MaxObjs
    /\ LET st == init_presets([variables |-> variables, objs |-> objs])
       IN /\ variables' = st.variables
          /\ objs' = st.objs
    /\ UNCHANGED <<netVars, sceneVars, gateVars, portVars, now, tickVars>>

\* the stores init_presets and new_project are tried on: empty, or one
\* Variable of any kind and value under a preset's name or another name
PresetInputs ==
    {<<>>} \cup {<<[name |-> name, var_type |-> vtype, value |-> value]>> :
                    name \in StoreNames \cup {"Q1"}, vtype \in VarKinds,
                    value \in BOOLEAN}

\* One = gate, its input port negated or not, its output port assigned the
\* Variable of the store if there is one.
InitPresets ==
    \E neg \in BOOLEAN, ob \in PresetInputs :
        Diagram([g \in GateIds |-> IF g = 1 THEN "=" ELSE "none"],
                [g \in GateIds |-> 1],
                [g \in GateIds |-> IF g = 1 THEN 1 ELSE 0],
                <<1>>,
                [m \in NetIds |-> IF m = 1 THEN <<1>> ELSE <<>>],
                [m \in NetIds |-> <<>>],
                [p \in Ports |-> IF p = <<1, 0>> THEN Len(ob) ELSE 0],
                [p \in Ports |-> p = <<1, 1>> /\ neg],
                ob)

NextPresets == PanelCreated \/ NewProject \/ ToggleInput
               \/ TickStart \/ EvalStep \/ TickEnd

\* init_presets and new_project applied to stores of every content
SpecPresets == InitPresets /\ [][NextPresets]_vars

\* ------------------------------------------------------- Gate editing
\* GateItem.__init__: the number of output ports a new gate gets
InitialOutputs(kind) == IF kind \in GateKinds THEN 1 ELSE 0

\* GraphicsScene.dropEvent on scene n with a gate kind dragged from the
\* palette: a GateItem with the ports of its kind is created (all its state
\* as GateItem.__init__ and PortItem.__init__ set it) and added to the scene
\* as its newest item.
GateDropped(kind, n) ==
    LET g == CHOOSE h \in GateIds :
                 /\ gate_type[h] = "none"
                 /\ \A j \in GateIds : gate_type[j] = "none" => h <= j
    IN /\ pc = "idle"
       /\ \E h \in GateIds : gate_type[h] = "none"
       /\ Cardinality({h \in GateIds : gate_type[h] # "none"}) < MaxBuilt
       /\ gate_type' = [gate_type EXCEPT ![g] = kind]
       /\ gate_net' = [gate_net EXCEPT ![g] = n]
       /\ nin' = [nin EXCEPT ![g] = InitialInputs(kind)]
       /\ sceneGates' = [sceneGates EXCEPT ![n] = <<g>> \o @]
       /\ request' = <<"drop", g, kind>>
       /\ UNCHANGED <<sceneWires, active, memory, start_time, delay,
                      prev_input, storeVars, netVars, portVars, now, tickVars>>

DropGate == \E kind \in GateKinds, n \in Range(layout) : GateDropped(kind, n)

\* GateItem.add_input_port: a new input port is appended to the gate's
\* input ports
add_input_port(g) == [nin EXCEPT ![g] = @ + 1]

\* mutant: the menu is offered on gates of every kind
contextMenuEvent_AnyKind(g) ==
    /\ pc = "idle"
    /\ Shown(g)
    /\ nin[g] < MaxIn
    /\ nin' = add_input_port(g)
    /\ request' = <<"add_input", g>>
    /\ UNCHANGED <<sceneGates, sceneWires, active, gate_type, gate_net,
                   memory, start_time, delay, prev_input, storeVars, netVars,
                   portVars, now, tickVars>>

\* GateItem.contextMenuEvent with "Eingang hinzufuegen" chosen where the
\* menu is offered
contextMenuEvent(g) ==
    /\ pc = "idle"
    /\ Shown(g)
    /\ nin[g] < MaxIn
    /\ nin' = IF gate_type[g] \in {"AND", "OR", "XOR"}
              THEN add_input_port(g) ELSE nin
    /\ request' = <<"add_input", g>>
    /\ UNCHANGED <<sceneGates, sceneWires, active, gate_type, gate_net,
                   memory, start_time, delay, prev_input, storeVars, netVars,
                   portVars, now, tickVars>>

AddInput == \E g \in GateIds : contextMenuEvent(g)

\* Two empty networks
InitBuild ==
    Diagram([g \in GateIds |-> "none"],
            [g \in GateIds |-> 1],
            [g \in GateIds |-> 0],
            <<1, 2>>,
            [m \in NetIds |-> <<>>],
            [m \in NetIds |-> <<>>],
            [p \in Ports |-> 0],
            [p \in Ports |-> FALSE],
            <<Input("S1"), Merker("M1")>>)

NextBuild == DropGate \/ AddInput

\* Gates dropped on two networks and given inputs
SpecBuild == InitBuild /\ [][NextBuild]_vars

\* ================================================================ claims
\* The step is a call of compute_output on gate g.
Evaluated(g) == evals'[g] = evals[g] + 1

Latest(g) == hist[g][Len(hist[g])]

\* the gates of a kind that have been evaluated at least once
Observed(kind) == {g \in GateIds : gate_type[g] = kind /\ hist[g] # <<>>}

\* the resolved inputs of the observations i .. i + Len(pattern) - 1 of h
InputsFrom(h, i, n) == [j \in 1 .. n |-> h[i + j - 1].ins]
ResultsFrom(h, i, n) == [j \in 1 .. n |-> h[i + j - 1].res]

\* every wire of every scene
AllWires == UNION {Range(sceneWires[n]) : n \in NetIds}

WiresInto(p) == {w \in AllWires : w.dest_port = p}

Flip(p, raw) == IF negated[p] THEN ~raw ELSE raw

\* the index of gate g in the order of the running tick, 0 when it has none
Position(g) ==
    IF \E i \in 1 .. Len(TickItems) : TickItems[i] = g
    THEN CHOOSE i \in 1 .. Len(TickItems) : TickItems[i] = g
    ELSE 0

\* the tick has called compute_output on every item
TickOver == pc = "tick" /\ pos > Len(TickItems)

\* the ports get_value is called on: those of the gates evaluated and
\* displayed, and the source ports of the wires in a scene
Readable(p) ==
    /\ PortExists(p)
    /\ InScene(p[1]) \/ \E w \in AllWires : w.source_port = p

RECURSIVE Resolved(_)
\* the resolved value as the claim states it
Resolved(p) ==
    LET raw == IF WiresInto(p) # {}
               THEN Resolved((CHOOSE w \in WiresInto(p) : TRUE).source_port)
               ELSE IF port_variable[p] # 0
                    THEN objs[port_variable[p]].value
                    ELSE internal_value[p]
    IN IF negated[p] THEN ~raw ELSE raw

C1_EveryPort == \A p \in Ports : Readable(p) => get_value(p) = Resolved(p)

C1_EveryRead ==
    \A g \in GateIds : Evaluated(g) =>
        LET o == hist'[g][Len(hist'[g])]
        IN \A k \in 1 .. Len(o.ins) : o.ins[k] = Resolved(<<g, k>>)

\* C1: the resolved value of a port is that of the source port of its
\* incoming wire if it has one, else the value of its bound Variable if it is
\* bound, else its latched value, negated if the port's flag is set: in
\* every state, and for every value a gate evaluation reads.
C1_Resolved == []C1_EveryPort /\ [][C1_EveryRead]_vars

\* a gate has read, through a negated input port with a wire and a binding,
\* the value of a negated source port bound to a Variable
C1_Witness ==
    \E w \in AllWires :
        LET q == w.dest_port
            src == w.source_port
        IN /\ Readable(q) /\ Readable(src)
           /\ negated[q] /\ negated[src]
           /\ port_variable[q] # 0 /\ port_variable[src] # 0
           /\ hist[q[1]] # <<>>
           /\ Latest(q[1]).ins[q[2]] = objs[port_variable[src]].value
           /\ objs[port_variable[src]].value
           /\ ~internal_value[src]

\* the gate whose compute_output call has just returned
JustEvaluated == TickItems[pos - 1]

C3_OncePerTick ==
    /\ \A g \in GateIds : evals[g] <= 1 /\ (evals[g] = 1 => Shown(g))
    /\ TickOver => \A g \in GateIds : evals[g] = IF Shown(g) THEN 1 ELSE 0

\* a tick is over that evaluated one gate and skipped another one, evaluated
\* in an earlier tick and since removed or in a network since deleted
C3_Witness ==
    /\ TickOver
    /\ \E g \in GateIds : evals[g] = 1
    /\ \E g \in GateIds : evals[g] = 0 /\ hist[g] # <<>> /\ ~InScene(g)
    /\ \E g \in GateIds : evals[g] = 0 /\ hist[g] # <<>>
                          /\ gate_net[g] \notin Range(layout)

\* Wire w is the one port w.dest_port resolves from, gate B at its end has
\* been evaluated in the running tick and gate A at its start, evaluated in
\* the tick before, comes later in this one.
ReadBeforeWritten(w) ==
    LET A == w.source_port[1]
        B == w.dest_port[1]
    IN /\ pc = "tick"
       /\ Shown(A) /\ Shown(B)
       /\ IncomingWire(w.dest_port) # 0
       /\ sceneWires[gate_net[B]][IncomingWire(w.dest_port)] = w
       /\ evals[B] = 1 /\ evals[A] = 0
       /\ hist[A] # <<>>
       /\ w.dest_port[2] <= Len(Latest(B).ins)

\* C4 as claimed: when B's input port is wired from A's output port and A is
\* evaluated after B in a tick, B's evaluation has used the output A
\* produced in the tick before (so B's evaluation of the following tick uses
\* the output A produces in this one).
C4_AsClaimed ==
    \A w \in AllWires : ReadBeforeWritten(w) =>
        Latest(w.dest_port[1]).ins[w.dest_port[2]]
          = Flip(w.dest_port, Flip(w.source_port, Latest(w.source_port[1]).res))

\* C4, amended: the same when A's output port is not bound to a Variable;
\* when it is bound, B's evaluation has used the Variable's value.
C4_Latency ==
    \A w \in AllWires : ReadBeforeWritten(w) =>
        LET A == w.source_port[1]
            B == w.dest_port[1]
            v == port_variable[w.source_port]
            read == Latest(B).ins[w.dest_port[2]]
        IN /\ v = 0 => read = Flip(w.dest_port,
                                   Flip(w.source_port, Latest(A).res))
           /\ (v # 0 /\ B = JustEvaluated /\ port_variable[<<B, 0>>] # v)
              => read = Flip(w.dest_port, Flip(w.source_port, objs[v].value))

\* B has just used the output A produced in the tick before, which is not
\* the output A is about to produce
C4_Witness ==
    \E w \in AllWires :
        /\ ReadBeforeWritten(w)
        /\ port_variable[w.source_port] = 0
        /\ w.dest_port[1] = JustEvaluated
        /\ Latest(w.source_port[1]).res
        /\ ~Evaluate(w.source_port[1]).res
        /\ Latest(w.dest_port[1]).ins[w.dest_port[2]]

\* Gate a writes Variable v through its bound output port and is the only
\* gate that does; input port <<b, k>> of a gate of another network is bound
\* to v and has no incoming wire.
Shares(a, b, k) ==
    LET v == port_variable[<<a, 0>>]
    IN /\ Shown(a) /\ Shown(b)
       /\ gate_net[a] # gate_net[b]
       /\ k \in 1 .. nin[b]
       /\ v # 0
       /\ port_variable[<<b, k>>] = v
       /\ WiresInto(<<b, k>>) = {}
       /\ \A g \in GateIds \ {a} : port_variable[<<g, 0>>] # v

\* C5: with a gate of one network writing a shared Variable and an input
\* port of another network bound to it, at the end of every tick, in either
\* order of the networks, the input port resolves to the result the writing
\* gate produced in this tick from the current values of its sources.
C5_SharedVariable ==
    \A a \in GateIds, b \in GateIds, k \in 1 .. MaxIn :
        (TickOver /\ Shares(a, b, k)) =>
            /\ get_value(<<b, k>>) = Flip(<<b, k>>, Latest(a).res)
            /\ Latest(a).res = Evaluate(a).res
            /\ Latest(a).ins = Inputs(a)

\* the tick is over in which b was evaluated before a: b's evaluation used
\* the old value, its input port resolves to the new one
C5_Witness ==
    \E a \in GateIds, b \in GateIds :
        /\ TickOver /\ Shares(a, b, 1)
        /\ Position(b) < Position(a)
        /\ ~negated[<<b, 1>>]
        /\ Latest(a).res
        /\ ~Latest(b).ins[1]
        /\ get_value(<<b, 1>>)

\* C6: an SR gate (first port S, second port R) yields true when S is true,
\* false when R is true and S false, and its previous result (false before
\* the first evaluation) when both are false; so (S,R) = (1,0),(0,1),(1,1),
\* (0,0) yields true, false, true, true.
C6_SetDominant ==
    \A g \in Observed("SR") :
        LET h == hist[g]
        IN /\ \A i \in 1 .. Len(h) :
                LET S == h[i].ins[1]
                    R == h[i].ins[2]
                IN /\ S => h[i].res
                   /\ (R /\ ~S) => ~h[i].res
                   /\ (~S /\ ~R /\ i > 1) => (h[i].res = h[i - 1].res)
                   /\ (~S /\ ~R /\ i = 1 /\ Len(h) < HistLen) => ~h[i].res
           /\ \A i \in 1 .. Len(h) - 3 :
                InputsFrom(h, i, 4) = << <<TRUE, FALSE>>, <<FALSE, TRUE>>,
                                         <<TRUE, TRUE>>, <<FALSE, FALSE>> >>
                => ResultsFrom(h, i, 4) = <<TRUE, FALSE, TRUE, TRUE>>

C6_Witness ==
    \E g \in Observed("SR") :
        /\ Len(hist[g]) >= 4
        /\ InputsFrom(hist[g], Len(hist[g]) - 3, 4)
             = << <<TRUE, FALSE>>, <<FALSE, TRUE>>, <<TRUE, TRUE>>,
                  <<FALSE, FALSE>> >>
        /\ Latest(g).res

\* C7: an RS gate (first port R, second port S) yields false when R is true,
\* true when S is true and R false, and its previous result (false before
\* the first evaluation) when both are false; so (S,R) = (1,0),(0,1),(1,1),
\* (0,0) yields true, false, false, false.
C7_ResetDominant ==
    \A g \in Observed("RS") :
        LET h == hist[g]
        IN /\ \A i \in 1 .. Len(h) :
                LET R == h[i].ins[1]
                    S == h[i].ins[2]
                IN /\ R => ~h[i].res
                   /\ (S /\ ~R) => h[i].res
                   /\ (~S /\ ~R /\ i > 1) => (h[i].res = h[i - 1].res)
                   /\ (~S /\ ~R /\ i = 1 /\ Len(h) < HistLen) => ~h[i].res
           /\ \A i \in 1 .. Len(h) - 3 :
                InputsFrom(h, i, 4) = << <<FALSE, TRUE>>, <<TRUE, FALSE>>,
                                         <<TRUE, TRUE>>, <<FALSE, FALSE>> >>
                => ResultsFrom(h, i, 4) = <<TRUE, FALSE, FALSE, FALSE>>

C7_Witness ==
    \E g \in Observed("RS") :
        /\ Len(hist[g]) >= 4
        /\ InputsFrom(hist[g], Len(hist[g]) - 3, 4)
             = << <<FALSE, TRUE>>, <<TRUE, FALSE>>, <<TRUE, TRUE>>,
                  <<FALSE, FALSE>> >>
        /\ ~Latest(g).res

\* x < d on Python floats: every comparison with nan is False
FloatLT(x, d) == d # NaN /\ x < d

\* C8: a TON evaluation with control true arms the timer at the current time
\* if it was not armed and yields true iff now - armedAt >= delay; one with
\* control false yields false and clears armedAt.  With control held true
\* and the delay unchanged, an output once true stays true.
C8_OnDelay ==
    [][\A g \in GateIds : (gate_type[g] = "TON" /\ Evaluated(g)) =>
          LET o == hist'[g][Len(hist'[g])]
              control == o.ins[1]
              elapsed == now - start_time'[g]
          IN /\ control =>
                  /\ start_time'[g] = IF start_time[g] = None
                                      THEN now ELSE start_time[g]
                  /\ o.res = (delay'[g] # NaN /\ elapsed >= delay'[g])
             /\ ~control => (~o.res /\ start_time'[g] = None)
             /\ (control /\ hist[g] # <<>> /\ Latest(g).ins[1] /\ Latest(g).res
                 /\ delay'[g] = delay[g]) => o.res
             /\ internal_value'[<<g, 0>>] = o.res
      ]_vars

C8_Witness ==
    \E g \in Observed("TON") :
        /\ Latest(g).ins[1] /\ Latest(g).res
        /\ internal_value[<<g, 0>>]
        /\ delay[g] = 2
        /\ start_time[g] # None /\ now - start_time[g] >= 2

\* C9: a TOF evaluation with control true yields true and clears armedAt; one
\* with control false arms the timer at the current time if it was not armed
\* and yields true iff now - armedAt < delay.
C9_OffDelay ==
    [][\A g \in GateIds : (gate_type[g] = "TOF" /\ Evaluated(g)) =>
          LET o == hist'[g][Len(hist'[g])]
              control == o.ins[1]
              elapsed == now - start_time'[g]
          IN /\ control => (o.res /\ start_time'[g] = None)
             /\ ~control =>
                  /\ start_time'[g] = IF start_time[g] = None
                                      THEN now ELSE start_time[g]
                  /\ o.res = FloatLT(elapsed, delay'[g])
      ]_vars

\* C10: an FP evaluation yields (input and not the previous sample), the
\* previous sample being false before the first evaluation; so the samples
\* false, false, true, true, false yield true at the third sample only.
C10_RisingEdge ==
    \A g \in Observed("FP") :
        LET h == hist[g]
        IN /\ \A i \in 1 .. Len(h) :
                /\ i > 1 => (h[i].res = (h[i].ins[1] /\ ~h[i - 1].ins[1]))
                /\ (i = 1 /\ Len(h) < HistLen) => (h[i].res = h[i].ins[1])
           /\ prev_input[g] = Latest(g).ins[1]
           /\ \A i \in 1 .. Len(h) - 4 :
                InputsFrom(h, i, 5) = << <<FALSE>>, <<FALSE>>, <<TRUE>>,
                                         <<TRUE>>, <<FALSE>> >>
                => ResultsFrom(h, i, 5) = <<FALSE, FALSE, TRUE, FALSE, FALSE>>

C10_Witness ==
    \E g \in Observed("FP") :
        /\ Len(hist[g]) >= 5
        /\ InputsFrom(hist[g], Len(hist[g]) - 4, 5)
             = << <<FALSE>>, <<FALSE>>, <<TRUE>>, <<TRUE>>, <<FALSE>> >>
        /\ ResultsFrom(hist[g], Len(hist[g]) - 4, 5)
             = <<FALSE, FALSE, TRUE, FALSE, FALSE>>

\* C11: an FN evaluation yields (not input and the previous sample) and the
\* previous sample becomes the input read; so the output is true at exactly
\* the evaluations whose input is false and was true at the evaluation
\* before, one evaluation per falling transition.
C11_FallingEdge ==
    \A g \in Observed("FN") :
        LET h == hist[g]
        IN /\ \A i \in 1 .. Len(h) :
                /\ i > 1 => (h[i].res = (~h[i].ins[1] /\ h[i - 1].ins[1]))
                /\ (i = 1 /\ Len(h) < HistLen) => ~h[i].res
                /\ (i > 1 /\ h[i].res /\ i < Len(h)) => ~h[i + 1].res
           /\ prev_input[g] = Latest(g).ins[1]
           /\ internal_value[<<g, 0>>] = Latest(g).res

C11_Witness ==
    \E g \in Observed("FN") :
        /\ Len(hist[g]) >= 3
        /\ InputsFrom(hist[g], Len(hist[g]) - 2, 3)
             = << <<TRUE>>, <<FALSE>>, <<FALSE>> >>
        /\ ResultsFrom(hist[g], Len(hist[g]) - 2, 3) = <<FALSE, TRUE, FALSE>>

\* C12: before its first evaluation a new FN gate has previous sample true
\* and a new FP gate has previous sample false.
C12_InitialSamples ==
    \A g \in GateIds : hist[g] = <<>> =>
        /\ gate_type[g] = "FN" => prev_input[g]
        /\ gate_type[g] = "FP" => ~prev_input[g]

\* C13: AND yields the conjunction and OR the disjunction of all its inputs,
\* XOR yields true iff an odd number of its inputs is true, and = yields its
\* input, for every number of input ports and every combination of values.
C13_TruthTables ==
    \A g \in GateIds : hist[g] # <<>> =>
        LET ins == Latest(g).ins
            res == Latest(g).res
            ones == Cardinality({i \in 1 .. Len(ins) : ins[i]})
        IN /\ gate_type[g] \in {"AND", "OR", "XOR"} =>
                (Len(ins) = nin[g] /\ nin[g] >= 2)
           /\ gate_type[g] = "AND" => (res = (ones = Len(ins)))
           /\ gate_type[g] = "OR" => (res = (ones > 0))
           /\ gate_type[g] = "XOR" => (res = (ones % 2 = 1))
           /\ gate_type[g] = "=" => (Len(ins) = 1 /\ res = ins[1])
           /\ gate_type[g] \in {"AND", "OR", "XOR", "="} =>
                internal_value[<<g, 0>>] = res

\* an XOR gate with three input ports, all of them true
C13_Witness ==
    \E g \in Observed("XOR") :
        /\ nin[g] = 3
        /\ Latest(g).ins = <<TRUE, TRUE, TRUE>>
        /\ Latest(g).res

\* connecting src and tgt is not allowed in a scene with wires ws
Illegal(ws, src, tgt) ==
    \/ is_input(src) /\ is_input(tgt)
    \/ ~is_input(src) /\ ~is_input(tgt)
    \/ src[1] = tgt[1]
    \/ \E i \in 1 .. Len(ws) :
          {ws[i].source_port, ws[i].dest_port} = {src, tgt}

\* C14: the second click of a connection on a port leaves the wires exactly
\* as they were when the two ports are both input ports, both output ports,
\* ports of one gate, or already connected, in either order of the clicks.
C14_Rejected ==
    [][\A n \in NetIds, src \in Ports, tgt \in Ports :
          (/\ active[n] = src
           /\ active'[n] = NoPort
           /\ request' = <<"connect", src, tgt>>
           /\ Illegal(sceneWires[n], src, tgt))
          => sceneWires' = sceneWires
      ]_vars

\* the input ports of the two gates were clicked one after the other, and
\* the one wire of the scene is all there is
C14_Witness ==
    \E s \in Ports, t \in Ports :
        /\ request = <<"connect", s, t>>
        /\ is_input(s) /\ is_input(t) /\ s[1] # t[1]
        /\ gate_net[s[1]] = gate_net[t[1]]
        /\ Len(sceneWires[gate_net[s[1]]]) = 1
        /\ active[gate_net[s[1]]] = NoPort

\* the wires of all scenes, each with its scene and its place in it
Placed == {<<n, i>> : n \in NetIds, i \in 1 .. MaxGates * MaxIn}

WireAt(x) == sceneWires[x[1]][x[2]]

PlacedWires == {x \in Placed : x[2] <= Len(sceneWires[x[1]])}

\* C15: every wire leads from an output port to an input port of another
\* gate, and no two wires connect the same two ports.
C15_WellFormed ==
    \A x \in PlacedWires :
        /\ ~is_input(WireAt(x).source_port)
        /\ is_input(WireAt(x).dest_port)
        /\ WireAt(x).source_port[1] # WireAt(x).dest_port[1]
        /\ \A y \in PlacedWires \ {x} :
              {WireAt(x).source_port, WireAt(x).dest_port}
                # {WireAt(y).source_port, WireAt(y).dest_port}

\* both wires two gates can have are there, and connecting the ports of one
\* of them again, input port first, was the latest request
C15_Witness ==
    \E x \in PlacedWires :
        /\ Cardinality(PlacedWires) = 2
        /\ request = <<"connect", WireAt(x).dest_port, WireAt(x).source_port>>
        /\ Head(sceneWires[x[1]]) # WireAt(x)

\* gate h and its ports are as they were, and so is what its ports resolve
\* to unless the value of a Variable changed
Untouched(h) ==
    /\ memory'[h] = memory[h]
    /\ start_time'[h] = start_time[h]
    /\ delay'[h] = delay[h]
    /\ prev_input'[h] = prev_input[h]
    /\ \A k \in 0 .. nin[h] :
          /\ internal_value'[<<h, k>>] = internal_value[<<h, k>>]
          /\ port_variable'[<<h, k>>] = port_variable[<<h, k>>]
          /\ objs' = objs => get_value(<<h, k>>)' = get_value(<<h, k>>)

C20_OneNetwork ==
    \A x \in PlacedWires :
        /\ gate_net[WireAt(x).source_port[1]] = x[1]
        /\ gate_net[WireAt(x).dest_port[1]] = x[1]

C20_Evaluation ==
    \A g \in GateIds : Evaluated(g) =>
        /\ sceneWires' = sceneWires
        /\ \A h \in GateIds :
              (gate_type[h] # "none" /\ gate_net[h] # gate_net[g])
              => Untouched(h)

\* C20: both ports of every wire belong to gates of the network the wire is
\* in, and an evaluation of a gate leaves the gates and ports of the other
\* networks as they were, and what their ports resolve to as well unless the
\* value of a Variable changed.
C20_Isolated == []C20_OneNetwork /\ [][C20_Evaluation]_vars

\* a connection was begun in each of two networks, no wire came of it, and
\* the value a gate of one network wrote is read through the shared variable
\* in the other
C20_Witness ==
    \E a \in GateIds, b \in GateIds :
        /\ TickOver /\ Shares(a, b, 1)
        /\ active[gate_net[a]] = <<a, 0>>
        /\ active[gate_net[b]] = <<b, 1>>
        /\ PlacedWires = {}
        /\ Latest(a).res
        /\ get_value(<<b, 1>>)

\* C16: no wire has a port of a gate that is no longer in its scene (deleting
\* a gate removes the wires at its ports with it), so no gate resolves an
\* input through such a wire.
C16_NoDangling ==
    \A x \in PlacedWires :
        /\ InScene(WireAt(x).source_port[1])
        /\ InScene(WireAt(x).dest_port[1])

\* the Variable object with index v is the one VARIABLES holds under its name
Stored(v) == variables[objs[v].name] = v

\* C17: a port is bound only to a Variable that is in the store (deleting a
\* Variable leaves the ports bound to it unbound), so that a port without
\* incoming wire resolves from its latched value once its Variable is
\* deleted.
C17_Unbound ==
    \A p \in Ports :
        (PortExists(p) /\ port_variable[p] # 0) => Stored(port_variable[p])

\* C18: whenever an output port gets a Variable, the Variable's kind at that
\* time is output or memory.
C18_OutputKinds ==
    [][\A p \in Ports :
          (/\ PortExists(p) /\ ~is_input(p)
           /\ port_variable'[p] # port_variable[p]
           /\ port_variable'[p] # 0)
          => objs[port_variable'[p]].var_type \in {"ausgang", "merker"}
      ]_vars

C19_Keys ==
    /\ \A name \in Names :
          variables[name] # 0 =>
              /\ variables[name] \in 1 .. Len(objs)
              /\ objs[variables[name]].name = name
    /\ \A n1 \in Names, n2 \in Names :
          (n1 # n2 /\ variables[n1] # 0) => variables[n1] # variables[n2]

C19_Rejections ==
    /\ \A name \in StoreNames, vtype \in VarKinds, value \in BOOLEAN :
          (variables[name] # 0 /\ AddVariable(name, vtype, value))
          => UNCHANGED storeVars
    /\ \A old_name \in StoreNames, new_name \in StoreNames,
          new_type \in VarKinds, new_value \in BOOLEAN :
          (/\ new_name # old_name
           /\ variables[new_name] # 0
           /\ EditVariable(old_name, new_name, new_type, new_value))
          => UNCHANGED storeVars

\* C19: creating a variable under a name that is in the store, and renaming
\* a variable to the name of another one in the store, leave the store as it
\* was; every name in the store is the name of exactly the Variable stored
\* under it.
C19_UniqueNames == []C19_Keys /\ [][C19_Rejections]_vars

\* a variable was asked for under a name the store holds, of another kind
\* than the one it holds, with all variables the store can take in it
C19_Witness ==
    \E name \in StoreNames, vtype \in VarKinds :
        /\ request = <<"create", name, vtype>>
        /\ variables[name] # 0
        /\ objs[variables[name]].var_type # vtype
        /\ \A n \in StoreNames : variables[n] # 0

\* C30: after every evaluation of an SR or RS gate, the evaluations at which
\* neither S nor R is asserted included, the memory of the gate is the result
\* the evaluation wrote to the output port.
C30_MemoryIsResult ==
    \A g \in GateIds :
        (gate_type[g] \in {"SR", "RS"} /\ hist[g] # <<>>) =>
            /\ memory[g] = Latest(g).res
            /\ internal_value[<<g, 0>>] = Latest(g).res

\* a latch that was reset and then evaluated with neither input asserted,
\* after it had held a true result
C30_Witness ==
    \E g \in GateIds :
        /\ gate_type[g] \in {"SR", "RS"}
        /\ Len(hist[g]) >= 3
        /\ hist[g][Len(hist[g])].ins = <<FALSE, FALSE>>
        /\ ~hist[g][Len(hist[g])].res
        /\ hist[g][Len(hist[g]) - 1].ins # <<FALSE, FALSE>>
        /\ \E i \in 1 .. Len(hist[g]) - 2 : hist[g][i].res
        /\ ~memory[g]

\* what a timer's result is made of: the control read, the arming time, the
\* delay and the clock
TimerOutput(kind, control, st, t, d) ==
    IF kind = "TON" THEN TONResult(control, st, t, d)
    ELSE TOFResult(control, st, t, d)

\* C23: the output of a TON or TOF gate is a function of the control value
\* read at the evaluation, the arming time, the delay and the clock alone,
\* not of how many evaluations there were: an evaluation that reads the
\* control value the evaluation before read leaves the arming time as it
\* was, and evaluating once more at the same instant gives the same output
\* and the same state.
C23_TickCountFree ==
    [][\A g \in GateIds :
          (gate_type[g] \in {"TON", "TOF"} /\ Evaluated(g)) =>
              LET control == hist'[g][Len(hist'[g])].ins[1]
                  res == hist'[g][Len(hist'[g])].res
              IN /\ res = TimerOutput(gate_type[g], control, start_time'[g],
                                      now, delay'[g])
                 /\ (hist[g] # <<>> /\ Latest(g).ins[1] = control)
                       => start_time'[g] = start_time[g]
                 /\ Evaluate(g)'.res = res
                 /\ Evaluate(g)'.start_time = start_time'[g]
                 /\ Evaluate(g)'.delay = delay'[g]
      ]_vars

\* an on-delay evaluated, in the tick under way, later than the instant it
\* was armed at and before its delay has elapsed
C23_Witness ==
    \E g \in Observed("TON") :
        /\ pc = "tick" /\ evals[g] = 1
        /\ Latest(g).ins[1] /\ ~Latest(g).res
        /\ delay[g] = 2
        /\ start_time[g] # None /\ now - start_time[g] = 1

\* C25: no input port is ever written: the latched value of every input
\* port is false in every reachable state, and an input port with no
\* incoming wire and no Variable resolves to its negation flag.
C25_InputsNeverWritten ==
    \A p \in Ports :
        (PortExists(p) /\ is_input(p)) =>
            /\ ~internal_value[p]
            /\ (port_variable[p] = 0 /\ IncomingWire(p) = 0)
                  => get_value(p) = negated[p]

\* a gate has written a true result to its output port, read from its
\* negated input port that has neither wire nor Variable
C25_Witness ==
    \E g \in GateIds :
        /\ Shown(g) /\ hist[g] # <<>>
        /\ Latest(g).res /\ internal_value[<<g, 0>>]
        /\ port_variable[<<g, 1>>] = 0 /\ IncomingWire(<<g, 1>>) = 0
        /\ negated[<<g, 1>>] /\ get_value(<<g, 1>>)
        /\ ~internal_value[<<g, 1>>]

\* the tick loop visits the gates of the networks in the layout, and no
\* others
C28_Loop ==
    /\ \A g \in GateIds : evals[g] = 1 => gate_net[g] \in Range(layout)
    /\ TickOver => \A g \in GateIds :
                      (InScene(g) /\ gate_net[g] \in Range(layout))
                      => evals[g] = 1

\* a step that takes a network from the layout takes that network only and
\* leaves everything else as it was
C28_Frame ==
    layout' # layout =>
        /\ \E n \in Range(layout) : layout' = Remove(layout, n)
        /\ UNCHANGED <<nnets, storeVars, sceneVars, gateVars, portVars, now,
                       tickVars>>

\* C28: deleting a network takes exactly its gates from the tick loop: none
\* of them is evaluated in a later tick, the gates of the other networks
\* are, and the deletion changes no Variable value and no gate state, wire
\* or binding.
C28_NetworkDeleted == []C28_Loop /\ [][C28_Frame]_vars

\* a tick after the deletion of a network is over: the gate of the deleted
\* network, evaluated before, was skipped and still is in its scene with
\* the result it had, the gate of the other network was evaluated and the
\* true value of its Variable is still there
C28_Witness ==
    /\ TickOver
    /\ \E g \in GateIds :
          /\ InScene(g) /\ gate_net[g] \notin Range(layout)
          /\ hist[g] # <<>> /\ evals[g] = 0
          /\ internal_value[<<g, 0>>] = Latest(g).res
    /\ \E h \in GateIds :
          /\ Shown(h) /\ evals[h] = 1
          /\ port_variable[<<h, 1>>] # 0
          /\ objs[port_variable[<<h, 1>>]].value

\* C22: removing a wire changes the set of wires only (the latches, negation
\* flags and Variables of its two ports, the state of every gate and the
\* value of every Variable stay as they were), and the port the wire ended
\* at then resolves from its Variable if it has one, else from its latch.
C22_WireRemoved ==
    [][\A n \in NetIds : \A i \in 1 .. Len(sceneWires[n]) :
          sceneWires' = [sceneWires EXCEPT
                            ![n] = SubSeq(@, 1, i - 1) \o SubSeq(@, i + 1, Len(@))]
          => /\ UNCHANGED <<sceneGates, storeVars, netVars, gateVars,
                            portVars, now>>
             /\ \A p \in Ports :
                   p = sceneWires[n][i].dest_port =>
                       get_value(p)' =
                           Flip(p, IF port_variable[p] # 0
                                   THEN objs[port_variable[p]].value
                                   ELSE internal_value[p])
      ]_vars

\* the input ports each kind of gate has
C27_Arity ==
    \A g \in GateIds :
        gate_type[g] # "none" =>
            /\ InitialOutputs(gate_type[g]) = 1 /\ PortExists(<<g, 0>>)
            /\ gate_type[g] \in {"AND", "OR", "XOR"} => nin[g] >= 2
            /\ gate_type[g] \in {"SR", "RS", "TON", "TOF"} => nin[g] = 2
            /\ gate_type[g] \in {"=", "FP", "FN"} => nin[g] = 1

\* a gate keeps its kind and its ports, a port is only ever added after the
\* ones there are, and the menu entry does nothing on a gate that is not
\* AND, OR or XOR
C27_Growth ==
    /\ \A g \in GateIds :
          gate_type[g] # "none" =>
              /\ gate_type'[g] = gate_type[g]
              /\ nin'[g] \in {nin[g], nin[g] + 1}
              /\ \A k \in 0 .. nin[g] :
                    /\ PortExists(<<g, k>>)'
                    /\ port_variable'[<<g, k>>] = port_variable[<<g, k>>]
                    /\ negated'[<<g, k>>] = negated[<<g, k>>]
    /\ \A g \in GateIds :
          (gate_type[g] \notin {"AND", "OR", "XOR"} /\ contextMenuEvent(g))
          => UNCHANGED <<sceneGates, sceneWires, active, gateVars, portVars,
                         storeVars, netVars, now, tickVars>>

\* C27: after any sequence of gate creations and add-input operations every
\* gate has one output port; AND, OR and XOR gates have two input ports or
\* more, their number only grows and a new port comes after the ones there
\* are; SR, RS, TON and TOF gates have two input ports and =, FP and FN
\* gates have one; adding an input does nothing on a gate of these kinds.
C27_PortCounts == []C27_Arity /\ [][C27_Growth]_vars

\* a gate of three input ports beside a gate of fixed arity on which an
\* input was asked for last
C27_Witness ==
    \E g \in GateIds, h \in GateIds :
        /\ gate_type[g] \in {"AND", "OR", "XOR"} /\ nin[g] = 3
        /\ gate_type[h] \in {"SR", "RS", "TON", "TOF"} /\ nin[h] = 2
        /\ request = <<"add_input", h>>

\* C26: within a tick the ports are repainted only after every gate of every
\* network has been evaluated: no port is repainted between two gate
\* evaluations of a tick.
C26_RefreshAfterEvaluation ==
    (pc = "tick" /\ painted # {}) => \A g \in GateIds : Shown(g) => evals[g] = 1

\* every port that has a Variable has the one the store holds under that
\* Variable's name
C29_Current ==
    \A p \in Ports :
        (PortExists(p) /\ port_variable[p] # 0) =>
            variables[objs[port_variable[p]].name] = port_variable[p]

\* a gate whose output port has a Variable of name n writes the value the
\* store reports for n
C29_Write ==
    \A g \in GateIds, name \in Names :
        (/\ Evaluated(g)
         /\ port_variable[<<g, 0>>] # 0
         /\ objs[port_variable[<<g, 0>>]].name = name)
        => /\ variables[name] # 0
           /\ objs'[variables[name]].value = hist'[g][Len(hist'[g])].res

\* C29: in every reachable state every port that is bound is bound to the
\* store's current entry of its Variable's name (also after a variable was
\* deleted, a new project begun or a project opened), so that a gate
\* writing to a port bound to name n changes the value the store reports
\* for n.
C29_BoundToStore == []C29_Current /\ [][C29_Write]_vars

\* the latest evaluation of every gate wrote a boolean to the output port,
\* and a tick that has come to the end of its items has evaluated every
\* gate on screen
C21_Written ==
    /\ \A g \in GateIds :
          hist[g] # <<>> =>
              /\ Latest(g).res \in BOOLEAN
              /\ internal_value[<<g, 0>>] = Latest(g).res
    /\ TickOver => \A g \in GateIds : Shown(g) => evals[g] = 1

\* a tick ends only at the end of its items
C21_EndsAtEnd == (pc = "tick" /\ pc' = "idle") => TickOver

\* C21: a tick never fails and always completes: with wires in a circle,
\* wires at removed gates, ports bound to deleted variables and timers
\* whose time source does not parse, every gate evaluation of the tick
\* writes a boolean result to the output port and the tick reaches its end.
C21_TickCompletes ==
    /\ []C21_Written
    /\ [][C21_EndsAtEnd]_vars
    /\ (pc = "tick") ~> (pc = "idle")

\* the end of a tick that evaluated the on-delay with its control port still
\* wired from the removed gate of the circle and its T port bound to the
\* deleted variable S1
C21_Witness ==
    /\ TickOver
    /\ evals[1] = 1 /\ ~InScene(2)
    /\ IncomingWire(<<1, 1>>) # 0
    /\ \E w \in Range(sceneWires[1]) : w.dest_port = <<2, 1>>
    /\ port_variable[<<1, 2>>] = 1 /\ variables["S1"] = 0
    /\ internal_value[<<1, 0>>] = Latest(1).res

\* the latest entry of a time constant was made on gate g with a text that
\* is no number
Malformed(g) ==
    /\ Len(request) = 4 /\ request[1] = "time" /\ request[2] = g
    /\ request[3] \notin FloatTexts

\* C24 as claimed: when the T port is bound to a Variable whose name does
\* not parse as a number, or the latest time constant entered was no number,
\* the delay after the next evaluation is the delay before; when the T
\* source is a number, the delay after the next evaluation is that number.
C24_AsClaimed ==
    [][\A g \in GateIds :
          (gate_type[g] \in {"TON", "TOF"} /\ Evaluated(g)) =>
              LET v == port_variable[<<g, 2>>]
              IN /\ (v # 0 /\ objs[v].name \notin FloatTexts)
                       => delay'[g] = delay[g]
                 /\ (v = 0 /\ Malformed(g)) => delay'[g] = request[4]
                 /\ (v # 0 /\ objs[v].name \in FloatTexts)
                       => delay'[g] = ParseFloat(objs[v].name)
                 /\ (v = 0 /\ ~Malformed(g) /\ time_value[<<g, 2>>] # None)
                       => delay'[g] = time_value[<<g, 2>>]
      ]_vars

\* C24: a time constant that is no number fails no operation and changes no
\* delay: entering it changes neither the time constant stored nor the
\* delay, and an evaluation with the T port bound to a Variable whose name
\* does not parse leaves the delay as it is.  After an evaluation the delay
\* is the number the bound Variable's name parses to, else, with no Variable
\* bound, the latest number entered, else what it was; so after a text that
\* is no number the delay stays what it was at the entry unless a number
\* entered before has not been evaluated yet.
C24_Malformed ==
    [][/\ \A g \in GateIds :
            (gate_type[g] \in {"TON", "TOF"} /\ Evaluated(g)) =>
                LET v == port_variable[<<g, 2>>]
                    tv == time_value[<<g, 2>>]
                IN /\ (v # 0 /\ objs[v].name \notin FloatTexts)
                         => delay'[g] = delay[g]
                   /\ (v # 0 /\ objs[v].name \in FloatTexts)
                         => delay'[g] = ParseFloat(objs[v].name)
                   /\ (v = 0 /\ tv # None) => delay'[g] = tv
                   /\ (v = 0 /\ tv = None) => delay'[g] = delay[g]
                   /\ (v = 0 /\ Malformed(g) /\ tv \in {None, request[4]})
                         => delay'[g] = request[4]
       /\ \A g \in GateIds :
            (request' # request /\ Malformed(g)')
            => UNCHANGED <<time_value, delay, storeVars, netVars, sceneGates,
                           sceneWires, active, gateVars, portVars, now,
                           tickVars>>
      ]_vars

\* a timer evaluated in the tick under way after a text that is no number
\* was entered for its time constant, with the delay 2 it had at the entry
C24_Witness ==
    \E g \in GateIds :
        /\ gate_type[g] \in {"TON", "TOF"}
        /\ pc = "tick" /\ evals[g] = 1
        /\ port_variable[<<g, 2>>] = 0
        /\ Malformed(g) /\ request[4] = 2
        /\ delay[g] = 2


\* C37: in every reachable state every input port has at most one incoming
\* wire, so the wire branch of get_value never has several sources to choose
\* from.
C37_SingleSource ==
    \A p \in Ports : is_input(p) => Cardinality(WiresInto(p)) <= 1


\* the store holds the presets and nothing else, each a Variable of the
\* preset's kind with value false
PresetStore ==
    \A name \in Names :
        IF \E i \in 1 .. Len(presets) : presets[i].name = name
        THEN /\ variables[name] # 0
             /\ \E i \in 1 .. Len(presets) : objs[variables[name]] = presets[i]
        ELSE variables[name] = 0

\* the store is the preset store and no port is bound to a Variable in it
FreshStore ==
    /\ PresetStore
    /\ \A p \in Ports : port_variable[p] # 0 => ~Stored(port_variable[p])

\* init_presets kept every Variable of the store as it was and added the
\* presets whose names were free, and nothing else
PresetsAdded ==
    \A name \in Names :
        IF variables[name] # 0
        THEN /\ variables'[name] = variables[name]
             /\ objs'[variables[name]] = objs[variables[name]]
        ELSE IF \E i \in 1 .. Len(presets) : presets[i].name = name
             THEN /\ variables'[name] > Len(objs)
                  /\ \E i \in 1 .. Len(presets) :
                        objs'[variables'[name]] = presets[i]
             ELSE variables'[name] = 0

\* C31: new_project leaves, whatever the store held, exactly the presets in
\* the store, each of its preset kind and false, and they are so still when
\* the tick new_project runs is over; init_presets, called when the panel is
\* built, creates the presets whose names are free and leaves a Variable
\* that already has a preset's name as it is.
C31_Presets ==
    [][ /\ NewProject => FreshStore'
        /\ (pc = "tick" /\ FreshStore) => FreshStore'
        /\ PanelCreated => PresetsAdded
      ]_vars

\* new_project has replaced the store of a diagram whose = gate writes true
\* to the Variable its output port was assigned before, and its tick is over
C31_Witness ==
    /\ TickOver /\ evals[1] = 1
    /\ PresetStore
    /\ port_variable[<<1, 0>>] # 0
    /\ ~Stored(port_variable[<<1, 0>>])
    /\ objs[port_variable[<<1, 0>>]].value


\* the store holds a Variable for every entry of project_vars, of the
\* entry's name, kind and value, and no other
StoreIs(project_vars) ==
    \A name \in Names :
        IF InFile(project_vars, name)
        THEN /\ variables[name] # 0
             /\ objs[variables[name]] =
                    [name |-> name,
                     var_type |-> FileEntry(project_vars, name).var_type,
                     value |-> FileEntry(project_vars, name).value]
        ELSE variables[name] = 0

\* the store is what the file save_project wrote last says
SavedStore ==
    /\ request # <<>> /\ request[1] \in {"save", "open"}
    /\ StoreIs(Loaded(request[2]))

\* the file save_project wrote last was the latest request, to open it
Opened == request # <<>> /\ request[1] = "open"

\* C32 as claimed: when the saved file has been opened, whatever the store
\* held in between, the store holds exactly the saved Variables with their
\* saved names, kinds and values, also when open_project has run its tick.
C32_AsClaimed ==
    [][ /\ OpenSaved => SavedStore'
        /\ (pc = "tick" /\ Opened /\ SavedStore) => SavedStore'
      ]_vars

\* C32: opening the saved file, whatever the store held in between, rebuilds
\* the store to exactly the saved Variables with their saved names, kinds
\* and values; the tick open_project then runs keeps the names and kinds and
\* changes the value of a Variable only to the result of an evaluated gate
\* whose output port is bound to it.
C32_RoundTrip ==
    [][ /\ OpenSaved => SavedStore'
        /\ (pc = "tick" /\ Opened /\ SavedStore) =>
              /\ variables' = variables
              /\ \A v \in 1 .. Len(objs) :
                    /\ objs'[v].name = objs[v].name
                    /\ objs'[v].var_type = objs[v].var_type
                    /\ objs'[v].value # objs[v].value =>
                          \E g \in GateIds :
                              /\ Evaluated(g)
                              /\ port_variable[<<g, 0>>] = v
                              /\ objs'[v].value = internal_value'[<<g, 0>>]
      ]_vars

\* the saved file was opened on a store that had lost the saved Variable
\* and held another: a Variable was created from the file, and the tick
\* open_project runs is about to start
C32_Witness ==
    /\ Opened /\ SavedStore
    /\ pc = "tick" /\ pos = 1 /\ evals[1] = 0
    /\ Len(request[2]) = 1
    /\ \E v \in 1 .. Len(objs) : ~Stored(v)
    /\ variables[request[2][1].name] = Len(objs)
    /\ objs[Len(objs)].value


\* the edit dialog, opened on old_name, was accepted: the name it returned
\* is the old one or a free one
Accepted(old_name, new_name) ==
    /\ variables[old_name] # 0
    /\ new_name = old_name \/ variables[new_name] = 0

\* every port that was bound to the Variable listed as old_name is bound to
\* the Variable now listed as new_name, which has the given kind and value
Rebound(old_name, new_name, new_type, new_value) ==
    \A p \in Ports :
        (PortExists(p) /\ port_variable[p] = variables[old_name]) =>
            /\ port_variable'[p] = variables'[new_name]
            /\ port_variable'[p] = port_variable[p]
            /\ objs'[port_variable'[p]] = [name |-> new_name,
                                          var_type |-> new_type,
                                          value |-> new_value]

\* C33 as claimed: an accepted edit of a Variable's name, kind or value
\* leaves every port that was bound to it bound to the same, renamed
\* Variable, and every such port resolves to the new value, negated if the
\* port is negated.
C33_AsClaimed ==
    [][ \A old_name \in StoreNames, new_name \in StoreNames,
           new_type \in VarKinds, new_value \in BOOLEAN :
            ( /\ Accepted(old_name, new_name)
              /\ EditVariable(old_name, new_name, new_type, new_value) ) =>
                /\ Rebound(old_name, new_name, new_type, new_value)
                /\ \A p \in Ports :
                      (PortExists(p) /\ port_variable[p] = variables[old_name])
                          => get_value(p)' = Flip(p, new_value)
      ]_vars

\* C33: an accepted edit of a Variable's name, kind or value leaves every
\* port that was bound to it bound to the same, renamed Variable, and every
\* such port that no wire leads into resolves to the new value, negated if
\* the port is negated; a port a wire leads into resolves to what the
\* wire's source port resolves to, negated if the port is negated.
C33_BindingKept ==
    [][ \A old_name \in StoreNames, new_name \in StoreNames,
           new_type \in VarKinds, new_value \in BOOLEAN :
            ( /\ Accepted(old_name, new_name)
              /\ EditVariable(old_name, new_name, new_type, new_value) ) =>
                /\ Rebound(old_name, new_name, new_type, new_value)
                /\ \A p \in Ports :
                      (PortExists(p) /\ port_variable[p] = variables[old_name])
                          => /\ IncomingWire(p) = 0 =>
                                    get_value(p)' = Flip(p, new_value)
                             /\ \A w \in WiresInto(p) :
                                    get_value(p)' =
                                        Flip(p, get_value(w.source_port)')
      ]_vars

\* M1 was renamed S1, made an output variable and given the value true
\* while B's negated input port, which no wire leads into, was bound to it:
\* the port is still bound to it and resolves to false
C33_Witness ==
    /\ pc = "idle"
    /\ port_variable[<<2, 1>>] = 1 /\ variables["S1"] = 1
    /\ objs[1] = [name |-> "S1", var_type |-> "ausgang", value |-> TRUE]
    /\ negated[<<2, 1>>] /\ IncomingWire(<<2, 1>>) = 0
    /\ ~get_value(<<2, 1>>)


\* C34: whether or not a gate's output port is negated, an evaluation
\* latches the result itself in the port and stores it in the Variable bound
\* to the port; a wire leaving a negated output port delivers the opposite
\* of what the port holds, so that a wire leaving a negated output port
\* bound to a Variable always delivers the opposite of the Variable's value,
\* and the port at its end, while its gate is in the scene, resolves to
\* that, negated again if it is negated.
C34_NegationOnRead ==
    /\ (pc = "tick" /\ pos > 1) =>
          \A p \in Ports :
              p = <<JustEvaluated, 0>> =>
                  /\ internal_value[p] = Latest(p[1]).res
                  /\ port_variable[p] # 0 =>
                        objs[port_variable[p]].value = Latest(p[1]).res
    /\ \A w \in AllWires :
          negated[w.source_port] =>
              /\ get_value(w.source_port) =
                    ~(IF port_variable[w.source_port] # 0
                      THEN objs[port_variable[w.source_port]].value
                      ELSE internal_value[w.source_port])
              /\ (port_variable[w.source_port] # 0
                  /\ InScene(w.dest_port[1])) =>
                    get_value(w.dest_port) =
                        Flip(w.dest_port,
                             ~objs[port_variable[w.source_port]].value)

\* gate A, whose negated output port is bound to M1 and wired to B, has just
\* been evaluated to true: M1 is true and B's input port is fed false
C34_Witness ==
    /\ pc = "tick" /\ pos > 1 /\ JustEvaluated = 1
    /\ negated[<<1, 0>>] /\ port_variable[<<1, 0>>] = 2
    /\ Latest(1).res /\ objs[2].value
    /\ \E w \in AllWires :
          /\ w.source_port = <<1, 0>> /\ w.dest_port = <<2, 1>>
          /\ ~negated[<<2, 1>>]
          /\ ~get_value(<<2, 1>>)


\* the gates evaluated so far in the running tick whose output port is
\* bound to the Variable object v
Writers(v) == {g \in GateIds : evals[g] > 0 /\ port_variable[<<g, 0>>] = v}

\* C36: when the output ports of several gates, of one network or of
\* several, are bound to one Variable, the Variable holds, throughout a tick
\* and at its end, the result of the gate evaluated last so far among them:
\* every earlier write of the tick is overwritten.
C36_LastWriteWins ==
    pc = "tick" =>
        \A v \in 1 .. Len(objs) :
            Writers(v) # {} =>
                \E g \in Writers(v) :
                    /\ \A h \in Writers(v) : Position(h) <= Position(g)
                    /\ objs[v].value = Latest(g).res

\* A and B, in different networks, have both written M1 in this tick, A
\* first and true, B last and false: M1 is false at the end of the tick
C36_Witness ==
    /\ TickOver
    /\ Writers(2) = {1, 2} /\ gate_net[1] # gate_net[2]
    /\ Position(1) < Position(2)
    /\ Latest(1).res /\ ~Latest(2).res
    /\ ~objs[2].value


\* C38: an off-delay whose control is false at its first evaluation and at
\* every later one arms at the first evaluation and stays armed at that
\* time; each evaluation yields true as long as the delay has not elapsed
\* since the first evaluation, and false once it has.
C38_ArmedAtCreation ==
    /\ [](\A g \in Observed("TOF") : ~Latest(g).ins[1])
    /\ [][\A g \in GateIds :
            (gate_type[g] = "TOF" /\ Evaluated(g)) =>
                /\ start_time'[g] = IF hist[g] = <<>> THEN now
                                    ELSE start_time[g]
                /\ start_time'[g] # None
                /\ hist'[g][Len(hist'[g])].res =
                      ~(/\ delay'[g] # NaN
                        /\ now - start_time'[g] >= delay'[g])
         ]_vars

\* the off-delay, first evaluated at time 1 with a delay of 2 seconds, is
\* evaluated at time 3 and yields false
C38_Witness ==
    /\ gate_type[1] = "TOF" /\ hist[1] # <<>>
    /\ ~Latest(1).ins[1] /\ ~Latest(1).res
    /\ start_time[1] = 1 /\ delay[1] = 2 /\ now = 3
    /\ ~internal_value[<<1, 0>>]


\* the result a combinational gate of a kind makes of resolved inputs
Combine(kind, ins) ==
    CASE kind = "AND" -> ANDResult(ins)
      [] kind = "OR"  -> ORResult(ins)
      [] kind = "XOR" -> XORResult(ins)
      [] OTHER -> IF ins # <<>> THEN ins[1] ELSE FALSE

RECURSIVE ExpectedResult(_)
RECURSIVE ExpectedValue(_)
\* Evaluation in dependency order: the result of a gate is made of what its
\* input ports resolve to once the gates feeding them have their results.
ExpectedResult(g) ==
    Combine(gate_type[g],
            [k \in 1 .. ReadCount(g) |-> ExpectedValue(<<g, k>>)])

\* what a port resolves to in dependency order: an output port to its
\* gate's result, an input port to the port a wire leads from, else to its
\* Variable, else to its latch; negated if the port is negated
ExpectedValue(p) ==
    Flip(p, IF ~is_input(p) THEN ExpectedResult(p[1])
            ELSE IF WiresInto(p) # {}
                 THEN ExpectedValue((CHOOSE w \in WiresInto(p) : TRUE).source_port)
                 ELSE IF port_variable[p] # 0
                      THEN objs[port_variable[p]].value
                      ELSE internal_value[p])

\* the gates whose output port a wire leads from into gate g
Feeding(g) == {w.source_port[1] : w \in {x \in AllWires : x.dest_port[1] = g}}

\* gate g holds its dependency-order result and its output port resolves to
\* it
Settled(g) ==
    /\ internal_value[<<g, 0>>] = ExpectedResult(g)
    /\ get_value(<<g, 0>>) = ExpectedValue(<<g, 0>>)

RECURSIVE SettledUpTo(_)
\* gate g and every gate it depends on are settled
SettledUpTo(g) == Settled(g) /\ \A h \in Feeding(g) : SettledUpTo(h)

\* no Variable is bound to the output ports of two gates
SingleWriter ==
    \A g \in GateIds, h \in GateIds :
        (g # h /\ InScene(g) /\ InScene(h) /\ port_variable[<<g, 0>>] # 0)
            => port_variable[<<g, 0>>] # port_variable[<<h, 0>>]

\* a gate evaluated when the gates feeding it are settled is settled, and a
\* gate settled with all it depends on stays so
Settling ==
    \A g \in GateIds :
        InScene(g) =>
            /\ SettledUpTo(g) => SettledUpTo(g)'
            /\ (Evaluated(g) /\ \A h \in Feeding(g) : SettledUpTo(h))
                  => SettledUpTo(g)'

AllSettled == \A g \in GateIds : InScene(g) => SettledUpTo(g)

\* C35 as claimed: in a network of combinational gates wired without cycles
\* and run without edits, whatever the order of evaluation, an evaluation
\* settles a gate whose feeding gates are settled and a settled gate stays
\* settled, so that a gate d wires deep is settled by the end of the d-th
\* tick and all N gates by the end of the N-th; from then on every output is
\* the one of evaluation in dependency order.
C35_AsClaimed ==
    /\ [][Settling]_vars
    /\ <>[]AllSettled

\* C35: the same, for networks in which no Variable is bound to the output
\* ports of two gates.
C35_Converges ==
    /\ [][SingleWriter => Settling]_vars
    /\ SingleWriter => <>[]AllSettled

\* the chain 1 -> 2 -> 3, evaluated in the order 3, 2, 1, has settled with
\* gate 3, an AND, true and M1, bound to gate 1's negated output port, false
C35_Witness ==
    /\ AllSettled /\ SingleWriter
    /\ pc = "idle" /\ TickItems = <<3, 2, 1>>
    /\ WiresInto(<<2, 1>>) # {} /\ WiresInto(<<3, 1>>) # {}
    /\ gate_type[3] = "AND" /\ internal_value[<<3, 0>>]
    /\ negated[<<1, 0>>] /\ port_variable[<<1, 0>>] = 3 /\ ~objs[3].value

=============================================================================
